---- MODULE Spec2Model ----
(***************************************************************************)
(* A model of the holiday_card scene: the proximity tracker                *)
(* (interaction.rs), the character (theman.rs), the binary props           *)
(* (fireplace.rs, stereo.rs, tree.rs, attic_light.rs, house_lights.rs)     *)
(* and Santa's one-shot animation (santa.rs) as systems of one Bevy        *)
(* Update schedule.                                                        *)
(*                                                                         *)
(* One tick is: BeginTick (the frame's InputEvents arrive), every system   *)
(* of the schedule once, in any order (no add_systems call under src/      *)
(* orders two systems), then ApplyDeferred (the Commands the systems       *)
(* queued are applied at the end of the schedule, and the message buffers  *)
(* rotate before the next Update).                                         *)
(*                                                                         *)
(* A specification schedules a subset of the systems: the systems left out *)
(* write nothing the scheduled ones read.  Coordinates are world units;    *)
(* the boxes of aabb_overlap are computed in half units (every term        *)
(* doubled) so that width / 2.0 stays exact.  Light intensities are in     *)
(* thousandths.  Time is counted in ticks: a frame timer runs FrameTicks   *)
(* ticks.  Fields no system reads back and no property here speaks of      *)
(* (Sprite.flip_x, Transform z, light color) are not part of the state,    *)
(* and the systems of the character that write only those or the frame     *)
(* index (handle_animations, handle_audio, idle_action) are not            *)
(* scheduled.  handle_light_flicker is not scheduled either: fireplace.rs  *)
(* places handle_light in LightInsertionSet, a set that no file under      *)
(* src/ defines, so its order against the flicker is not known.  The       *)
(* audio sink of a prop is taken to be present from the start.  input.rs   *)
(* is not under src/: the InputEvents of a frame are drawn from the        *)
(* values handle_messages distinguishes.  The writer of SantasHereEvent    *)
(* and the tree's Presents are not under src/ either: the event may        *)
(* arrive in any tick and has_presents is any answer.                      *)
(***************************************************************************)
EXTENDS Integers, Sequences, FiniteSets, TLC

\* ------------------------------------------------------------------ bounds

\* Distance walked in one tick, WALKING_SPEED * time.delta_secs(), in world units.
WalkStep == 23

\* The character's x stays within [-WorldLeft, WorldRight]: a walk beyond is not explored.
WorldLeft == 64
WorldRight == 143

\* InputEvents written in one frame.
MaxInputs == 1

\* Ticks a tree light transition takes: LIGHT_CHANGE_DELAY / time.delta_secs().
TransitionTicks == 2

\* Ticks a frame of a sprite sheet is shown: the duration of the timer made by
\* timer_from_fps, over time.delta_secs().
FrameTicks == 2

\* The centre of the second box given to aabb_overlap ranges over -ProbeRange..ProbeRange.
ProbeRange == 12

\* A coordinate given to noise::generate is a multiple of 1 / Grid.
Grid == 4

\* The coordinates given to noise::generate range over -NoiseRange..NoiseRange
\* (in units of 1 / Grid).
NoiseRange == 10

\* The octaves given to noise::generate range over 0..MaxOctaves.
MaxOctaves == 3

\* Ticks of Time that pass between two calls of noise::generate.
MaxElapsed == 2

\* Updates per second: time.delta() is 1 / TickRate seconds.
TickRate == 2

\* The seconds given to Timer::from_seconds range over -1..MaxSeconds.
MaxSeconds == 5

\* The fps given to AnimationConfig::new range over 0..MaxFps.
MaxFps == 6

\* A palette has 0..MaxColors colors.
MaxColors == 3

\* The logits given to softmax range over -LogitRange..LogitRange (in units of
\* 1 / ExpGrid).
LogitRange == 6

\* The temperature ranges over 1..MaxTemperature (in units of 1 / TempGrid).
MaxTemperature == 4

\* weights is called with time, seed and seed_offset of -SeedRange..SeedRange (in
\* units of 1 / Grid) and with 1..MaxColorOctaves octaves.
SeedRange == 2
MaxColorOctaves == 2

\* ------------------------------------------------------- program constants

THEMAN_X == -64
THEMAN_Y == -56
INTERACTOR_WIDTH == 13
INTERACTOR_HEIGHT == 32
CHAIR_SIT_X == 74
XMAS_LIGHTS == 40

\* Interactables in the order the query of detect_overlaps enumerates them
\* (one fixed order): id, centre, size.
Interactables ==
    << [id |-> "fireplace",    x |-> 120, y |-> -31, width |-> 32, height |-> 50],
       [id |-> "stereo",       x |-> 18,  y |-> -46, width |-> 20, height |-> 16],
       [id |-> "tree",         x |-> -90, y |-> -38, width |-> 14, height |-> 16],
       [id |-> "chair",        x |-> 70,  y |-> -58, width |-> 17, height |-> 25],
       [id |-> "attic-light",  x |-> 149, y |-> -54, width |-> 2,  height |-> 16],
       [id |-> "light-switch", x |-> 148, y |-> -50, width |-> 3,  height |-> 4] >>

Ids == { Interactables[i].id : i \in 1..Len(Interactables) }

\* Outputs of LightTransition::random_intensity (LIGHT_INTENSITY_RANGE), in thousandths.
IntensitySamples == {200, 500}

\* The colors of the tree's light (tree.rs LIGHT_COLORS), in thousandths of srgb.
LIGHT_COLORS == << << 200, 200, 800 >>, << 200, 800, 200 >>, << 800, 200, 200 >> >>

\* The values random_color returns.
RandomColors == { LIGHT_COLORS[i] : i \in 1..Len(LIGHT_COLORS) }

\* ------------------------------------------------------------- interaction

\* A plausible slip in aabb_overlap: edges that touch count as apart.
aabb_overlap_strict(x1, y1, width_1, height_1, x2, y2, width_2, height_2) ==
    ~(2 * x1 + width_1 <= 2 * x2 - width_2 \/ 2 * x1 - width_1 >= 2 * x2 + width_2
      \/ 2 * y1 + height_1 <= 2 * y2 - height_2 \/ 2 * y1 - height_1 >= 2 * y2 + height_2)

\* A plausible slip in aabb_overlap: the test left_1 > right_2 is forgotten.
aabb_overlap_one_sided(x1, y1, width_1, height_1, x2, y2, width_2, height_2) ==
    ~(2 * x1 + width_1 < 2 * x2 - width_2
      \/ 2 * y1 + height_1 < 2 * y2 - height_2 \/ 2 * y1 - height_1 > 2 * y2 + height_2)

\* aabb_overlap, every term doubled: 2*left_1 = 2*pos_1.x - width_1, and so on.
aabb_overlap(x1, y1, width_1, height_1, x2, y2, width_2, height_2) ==
    LET left_1   == 2 * x1 - width_1
        right_1  == 2 * x1 + width_1
        top_1    == 2 * y1 + height_1
        bottom_1 == 2 * y1 - height_1
        left_2   == 2 * x2 - width_2
        right_2  == 2 * x2 + width_2
        top_2    == 2 * y2 + height_2
        bottom_2 == 2 * y2 - height_2
    IN  ~(right_1 < left_2 \/ left_1 > right_2 \/ top_1 < bottom_2 \/ bottom_1 > top_2)

\* Whether interactable i overlaps the interactor at (x, y).
Overlaps(i, x, y) ==
    aabb_overlap(x, y, INTERACTOR_WIDTH, INTERACTOR_HEIGHT,
                 Interactables[i].x, Interactables[i].y,
                 Interactables[i].width, Interactables[i].height)

\* A plausible slip in the loop of detect_overlaps: no break, the last match wins.
RECURSIVE LastOverlapFrom(_, _, _)
LastOverlapFrom(i, x, y) ==
    IF i = 0 THEN {}
    ELSE IF Overlaps(i, x, y) THEN {Interactables[i].id}
    ELSE LastOverlapFrom(i - 1, x, y)

found_overlap_last(x, y) == LastOverlapFrom(Len(Interactables), x, y)

\* The inner loop of detect_overlaps: the first interactable that overlaps, as a
\* set of at most one id (found_overlap: Option<String>).
RECURSIVE FirstOverlapFrom(_, _, _)
FirstOverlapFrom(i, x, y) ==
    IF i > Len(Interactables) THEN {}
    ELSE IF Overlaps(i, x, y) THEN {Interactables[i].id}
    ELSE FirstOverlapFrom(i + 1, x, y)

found_overlap(x, y) == FirstOverlapFrom(1, x, y)

\* The match of detect_overlaps: the Commands it queues for the interactor.
OverlapCommands(currently_in_range, found) ==
    IF currently_in_range = {} /\ found # {}
      THEN << [op |-> "insert", id |-> CHOOSE id \in found : TRUE] >>
    ELSE IF currently_in_range # {} /\ found # {} /\ currently_in_range # found
      THEN << [op |-> "insert", id |-> CHOOSE id \in found : TRUE] >>
    ELSE IF currently_in_range # {} /\ found = {}
      THEN << [op |-> "remove", id |-> ""] >>
    ELSE << >>

\* Applying the queued Commands to the InRange component of the interactor.
RECURSIVE ApplyInRange(_, _)
ApplyInRange(range, cmds) ==
    IF cmds = << >> THEN range
    ELSE ApplyInRange(IF Head(cmds).op = "insert" THEN {Head(cmds).id} ELSE {},
                      Tail(cmds))

\* ------------------------------------------------------------------- state

VARIABLES
    phase,               \* "input": between ticks; "update": the Update schedule runs
    ran,                 \* the systems that have run in this tick
    inputs,              \* the InputEvents of this frame not yet read by handle_messages
    theman_state,        \* theman::State of the character
    theman_direction,    \* input::Direction of the character
    theman_x,            \* Transform.translation.x of the character
    theman_sprite,       \* Sprite of the character: image and texture_atlas
    theman_config,       \* AnimationConfig of the character
    navigation,          \* the character's Navigation component: {} or {target x}
    in_range,            \* the character's InRange component: {} or {id}
    state_changed,       \* Changed<State> of the character, as handle_interactions sees it
    removed_navigation,  \* RemovedComponents<Navigation> not yet read
    events_prev,         \* InteractionEvents written in the previous tick
    events_cur,          \* InteractionEvents written in this tick
    cursor,              \* per MessageReader: how many of events_prev \o events_cur it has read
    overlap_commands,    \* Commands queued by detect_overlaps
    nav_insert,          \* Commands queued by handle_messages: {} or {x} (insert Navigation)
    nav_remove,          \* Commands queued by handle_movement: remove::<Navigation>()
    fireplace,           \* the Fireplace entity: State, Sprite, audio sink, PointLight2d
    fireplace_commands,  \* Commands queued by fireplace::handle_light
    stereo,              \* the Stereo entity: State, Sprite, audio sink
    tree,                \* the Tree entity: State, Sprite (pulsing: its color and the scale
                         \* of the Transform are those of the highlight pulse),
                         \* AnimationConfig, PointLight2d, LightTransition, Interactable.first,
                         \* Highlight; turned_on is history: the State has been On
    tree_commands,       \* Commands queued by tree::handle_light_state
    attic_light,         \* the AtticLight switch (attic_light.rs) and its child light
    attic_commands,      \* Commands queued by attic_light::handle_light
    house_lights,        \* the Switch (house_lights.rs), its Sprite and its child lights
    house_commands,      \* Commands queued by house_lights::handle_light
    santa,               \* the Santa entity: Run, Sprite, AnimationConfig, its queued
                         \* Commands and the messages it reads and writes
    probe,               \* the arguments handed to a pure function and its answers
                         \* (<< >> before the call): two boxes and aabb_overlap of them
                         \* in this order and in the other, or a point, the octaves and
                         \* two calls of noise::generate, or the arguments of a Timer's
                         \* constructor and the Timer, or the arguments of softmax or
                         \* of weights and the weights
    seen_x,              \* history: theman_x as detect_overlaps last read it
    undispatched,        \* history: writes of State::Action since handle_interactions last ran
    activation,          \* history: InRange as it was when this tick's Up input was handled
    rising,              \* history: an Up input was handled while Sitting with the chair in
                         \* range, and handle_chair_interaction has not read a chair event since
    keyed,               \* history: the last walking input handled was a direction key
                         \* (FALSE: it was a click, or there was none)
    dispatched           \* history, kept where the props are specified on their own: per
                         \* id, the parity of the InteractionEvents written so far

schedVars == << phase, ran, inputs >>
manVars   == << theman_state, theman_direction, theman_x, theman_sprite, theman_config,
               navigation, in_range, state_changed, removed_navigation >>
msgVars   == << events_prev, events_cur, cursor >>
cmdVars   == << overlap_commands, nav_insert, nav_remove >>
fireVars  == << fireplace, fireplace_commands >>
treeVars  == << tree, tree_commands >>
atticVars == << attic_light, attic_commands >>
houseVars == << house_lights, house_commands >>
propVars  == << fireVars, stereo, treeVars, atticVars, houseVars >>
histVars  == << seen_x, undispatched, activation, rising, keyed, dispatched >>
vars      == << schedVars, manVars, msgVars, cmdVars, propVars, santa, probe, histVars >>

Directions == {"Left", "Right", "Up"}
States     == {"Idle", "Action", "Walking", "Sitting"}

\* The targets of a click (InputEvent.target.x).
ClickTargets == {70, 120}

\* InputEvent { direction: Option<Direction>, target: Option<Vec2> }, each option a
\* set of at most one value.
KeyEvents   == { [direction |-> {d}, target |-> {}] : d \in Directions }
              \cup { [direction |-> {}, target |-> {}] }
ClickEvents == { [direction |-> {}, target |-> {t}] : t \in ClickTargets }

RECURSIVE SeqsUpTo(_, _)
SeqsUpTo(S, n) ==
    IF n = 0 THEN { << >> }
    ELSE LET shorter == SeqsUpTo(S, n - 1)
         IN  shorter \cup { Append(s, e) : s \in { t \in shorter : Len(t) = n - 1 }, e \in S }

Readers == {"theman", "fireplace", "stereo", "tree", "attic_light", "house_lights"}

\* The children of the Switch: the attic light (0) and the xmas lights.
Children == 0..XMAS_LIGHTS

\* AnimationConfig::new. frame_timer is the time the Once timer made by
\* timer_from_fps has run, in ticks: 0 for a new timer.
AnimationConfig(first, last, fps) ==
    [first_index |-> first, last_index |-> last, fps |-> fps, frame_timer |-> 0]

\* The AnimationConfig the character is spawned with (the walking sheet has 9
\* frames), and the one handle_chair_interaction sets (the sitting sheet has 5).
walking_config == AnimationConfig(0, 8, 10)
sitting_config == AnimationConfig(0, 4, 10)

\* The sprites of the character.
standing_sprite == [image |-> "standing", atlas |-> << "standing", 0 >>]
walking_sprite  == [image |-> "walking",  atlas |-> << "walking", 0 >>]
sitting_sprite  == [image |-> "sitting",  atlas |-> << "sitting", 0 >>]

\* The sprites of a prop: the single off image, and the animation sheet at frame 0.
off_sprite     == [image |-> "off", atlas |-> << >>]
running_sprite == [image |-> "running", atlas |-> << "running", 0 >>]

\* The Santa entity as spawned: no Run, no Sprite.  atlas is the index of the
\* Sprite's texture_atlas (<< >> for None); duration is the duration of
\* config.frame_timer in ticks; start and finish are the Commands queued by
\* handle_start (the has_presents of each insert) and by handle_animations;
\* here counts the SantasHereEvents handle_start has not read, added the
\* AddPresentsEvents written in this tick.  with_presents is history: the
\* has_presents of the handle_start whose insert made the present Run.
NoSanta == [run |-> FALSE, sprite |-> FALSE, atlas |-> << >>,
            config |-> AnimationConfig(0, 27, 4), duration |-> FrameTicks,
            start |-> << >>, finish |-> << >>, here |-> 0, added |-> 0,
            with_presents |-> FALSE]

\* No probe of aabb_overlap.
NoProbe == [x1 |-> 0, y1 |-> 0, width_1 |-> 0, height_1 |-> 0,
            x2 |-> 0, y2 |-> 0, width_2 |-> 0, height_2 |-> 0, overlap |-> << >>,
            swapped |-> << >>]

\* The scene after the Startup systems (the init of every module); wired tells
\* whether the child of the attic light's switch carries a PointLight2d.
InitWired(wired) ==
    /\ phase = "input"
    /\ ran = {}
    /\ inputs = << >>
    /\ theman_state = "Idle"
    /\ theman_direction = "Right"
    /\ theman_x = THEMAN_X
    /\ theman_sprite = standing_sprite
    /\ theman_config = walking_config
    /\ navigation = {}
    /\ in_range = {}
    /\ state_changed = TRUE
    /\ removed_navigation = FALSE
    /\ events_prev = << >>
    /\ events_cur = << >>
    /\ cursor = [r \in Readers |-> 0]
    /\ overlap_commands = << >>
    /\ nav_insert = {}
    /\ nav_remove = FALSE
    /\ fireplace = [state |-> "Off", sprite |-> off_sprite, sink |-> "paused",
                    config |-> AnimationConfig(0, 4, 6),
                    intensity |-> 0, flickering |-> FALSE,
                    changed |-> [handle_sound |-> TRUE, handle_light |-> TRUE]]
    /\ fireplace_commands = << >>
    /\ stereo = [state |-> "Off", sprite |-> off_sprite, sink |-> "paused",
                 config |-> AnimationConfig(0, 4, 4),
                 changed |-> [handle_sound |-> TRUE]]
    /\ tree = [state |-> "Off", sprite |-> off_sprite, intensity |-> 0,
               transition |-> << >>, config |-> AnimationConfig(0, 4, 2),
               first |-> TRUE, highlight |-> FALSE, removed_highlight |-> FALSE,
               pulsing |-> FALSE, turned_on |-> FALSE,
               changed |-> [handle_light_state |-> TRUE,
                            handle_interaction_disable_highlight |-> TRUE]]
    /\ tree_commands = << >>
    /\ attic_light = [state |-> "Off", light |-> wired, intensity |-> 0,
                      flickering |-> FALSE,
                      changed |-> [handle_light |-> TRUE]]
    /\ attic_commands = << >>
    /\ house_lights = [state |-> "Off", sprite |-> [image |-> "switch_off"],
                       intensity |-> [c \in Children |-> 0], flickering |-> {},
                       changed |-> [handle_light |-> TRUE]]
    /\ house_commands = << >>
    /\ santa = NoSanta
    /\ seen_x = THEMAN_X
    /\ undispatched = 0
    /\ activation = {}
    /\ rising = FALSE
    /\ keyed = FALSE
    /\ dispatched = [id \in Ids |-> 0]

\* The scene as the init systems wire it.
InitScene == InitWired(TRUE)

Init == InitScene /\ probe = NoProbe

\* ---------------------------------------------------------------- schedule

\* The frame's input: the InputEvents handle_messages will read in this tick.
BeginTick(Events) ==
    /\ phase = "input"
    /\ phase' = "update"
    /\ inputs' \in SeqsUpTo(Events, MaxInputs)
    /\ activation' = {}
    /\ UNCHANGED << ran, manVars, msgVars, cmdVars, propVars, probe, seen_x, undispatched,
                    rising, keyed, dispatched, santa >>

\* A system runs once per tick, in any order relative to the others.
Runs(system) ==
    /\ phase = "update"
    /\ system \notin ran
    /\ ran' = ran \cup {system}
    /\ phase' = phase

\* The unread messages of a reader, and its cursor after reading them.
Unread(reader) == SubSeq(events_prev \o events_cur, cursor[reader] + 1,
                         Len(events_prev) + Len(events_cur))
ReadAll(reader) == [cursor EXCEPT ![reader] = Len(events_prev) + Len(events_cur)]

\* The parity of the events written so far, after these are written.
Dispatched(written) ==
    [id \in Ids |-> (dispatched[id]
                      + Cardinality({ i \in 1..Len(written) : written[i] = id })) % 2]

\* A plausible slip in detect_overlaps: entering a box also fires the interaction.
detect_overlaps_firing ==
    /\ Runs("detect_overlaps")
    /\ overlap_commands' = OverlapCommands(in_range, found_overlap(theman_x, THEMAN_Y))
    /\ seen_x' = theman_x
    /\ events_cur' = events_cur \o
           (IF in_range = {} /\ found_overlap(theman_x, THEMAN_Y) # {}
            THEN << CHOOSE id \in found_overlap(theman_x, THEMAN_Y) : TRUE >> ELSE << >>)
    /\ UNCHANGED << inputs, manVars, events_prev, cursor, nav_insert, nav_remove, propVars,
                    probe, undispatched, activation, rising, keyed, dispatched, santa >>

\* detect_overlaps: one interactor (the character); the Commands wait for the end
\* of the schedule.
detect_overlaps ==
    /\ Runs("detect_overlaps")
    /\ overlap_commands' = OverlapCommands(in_range, found_overlap(theman_x, THEMAN_Y))
    /\ seen_x' = theman_x
    /\ UNCHANGED << inputs, manVars, msgVars, nav_insert, nav_remove, propVars, probe,
                    undispatched, activation, rising, keyed, dispatched, santa >>

\* ----------------------------------------------------------------- theman

\* What the loop of handle_messages works on: the character's components, the
\* Navigation insert it has queued, and the history of the Up inputs it handled
\* (rising: the last input handled was an Up that found the character Sitting;
\* keyed: the last walking input handled was a direction key, not a click).
TheMan == [state |-> theman_state, direction |-> theman_direction,
           sprite |-> theman_sprite, config |-> theman_config,
           changed |-> state_changed, insert |-> nav_insert,
           activated |-> undispatched, up |-> FALSE, rising |-> rising,
           keyed |-> keyed]

\* A plausible slip in handle_messages: a click on the character's own x sets
\* Walking, as the clicks to its left and right do.
HandleMessageWalkingUp(man, event, x) ==
    IF event.direction = {} /\ event.target = {} THEN
        IF man.state # "Action" /\ man.state # "Sitting"
        THEN [man EXCEPT !.sprite = standing_sprite, !.state = "Idle", !.changed = TRUE]
        ELSE man
    ELSE IF event.target = {} THEN
        LET event_direction == CHOOSE d \in event.direction : TRUE
        IN  IF event_direction = "Up"
            THEN [man EXCEPT !.sprite = [image |-> "standing", atlas |-> << >>],
                             !.state = "Action", !.changed = TRUE,
                             !.activated = man.activated + 1, !.up = TRUE,
                             !.rising = (man.state = "Sitting" /\ in_range = {"chair"})
                                        \/ (man.state = "Action" /\ man.rising)]
            ELSE [man EXCEPT !.sprite = walking_sprite, !.state = "Walking",
                             !.config.frame_timer = 0,
                             !.direction = event_direction, !.changed = TRUE,
                             !.rising = FALSE, !.keyed = TRUE]
    ELSE IF event.direction = {} THEN
        LET target == CHOOSE t \in event.target : TRUE
            event_direction == IF target > x THEN "Right"
                               ELSE IF target < x THEN "Left" ELSE "Up"
            navigating == [man EXCEPT !.insert = {target}, !.rising = FALSE,
                                     !.keyed = FALSE]
        IN  IF event_direction = "Up"
            THEN [navigating EXCEPT !.state = "Walking", !.direction = "Up", !.changed = TRUE]
            ELSE [navigating EXCEPT !.sprite = walking_sprite, !.state = "Walking",
                                    !.config.frame_timer = 0,
                                    !.direction = event_direction, !.changed = TRUE]
    ELSE man

\* One iteration of the loop of handle_messages, the character at x.
HandleMessage(man, event, x) ==
    IF event.direction = {} /\ event.target = {} THEN
        IF man.state # "Action" /\ man.state # "Sitting"
        THEN [man EXCEPT !.sprite = standing_sprite, !.state = "Idle", !.changed = TRUE]
        ELSE man
    ELSE IF event.target = {} THEN
        LET event_direction == CHOOSE d \in event.direction : TRUE
        IN  IF event_direction = "Up"
            THEN [man EXCEPT !.sprite = [image |-> "standing", atlas |-> << >>],
                             !.state = "Action", !.changed = TRUE,
                             !.activated = man.activated + 1, !.up = TRUE,
                             !.rising = (man.state = "Sitting" /\ in_range = {"chair"})
                                        \/ (man.state = "Action" /\ man.rising)]
            ELSE [man EXCEPT !.sprite = walking_sprite, !.state = "Walking",
                             !.config.frame_timer = 0,
                             !.direction = event_direction, !.changed = TRUE,
                             !.rising = FALSE, !.keyed = TRUE]
    ELSE IF event.direction = {} THEN
        LET target == CHOOSE t \in event.target : TRUE
            event_direction == IF target > x THEN "Right"
                               ELSE IF target < x THEN "Left" ELSE "Up"
            navigating == [man EXCEPT !.insert = {target}, !.rising = FALSE,
                                     !.keyed = FALSE]
        IN  IF event_direction = "Up"
            THEN [navigating EXCEPT !.state = "Idle", !.direction = "Up", !.changed = TRUE]
            ELSE [navigating EXCEPT !.sprite = walking_sprite, !.state = "Walking",
                                    !.config.frame_timer = 0,
                                    !.direction = event_direction, !.changed = TRUE]
    ELSE man

RECURSIVE HandleMessages(_, _, _)
HandleMessages(man, events, x) ==
    IF events = << >> THEN man
    ELSE HandleMessages(HandleMessage(man, Head(events), x), Tail(events), x)

handle_messages ==
    /\ Runs("handle_messages")
    /\ LET man == HandleMessages(TheMan, inputs, theman_x)
       IN  /\ theman_state' = man.state
           /\ theman_direction' = man.direction
           /\ theman_sprite' = man.sprite
           /\ theman_config' = man.config
           /\ state_changed' = man.changed
           /\ nav_insert' = man.insert
           /\ undispatched' = man.activated
           /\ activation' = IF man.up THEN in_range ELSE activation
           /\ rising' = man.rising
           /\ keyed' = man.keyed
    /\ inputs' = << >>
    /\ UNCHANGED << theman_x, navigation, in_range, removed_navigation, msgVars,
                    overlap_commands, nav_remove, propVars, probe, seen_x, dispatched, santa >>

\* The navigation check of handle_movement.
NavigationReached ==
    \E target \in navigation :
        \/ theman_direction = "Left" /\ theman_x <= target
        \/ theman_direction = "Right" /\ theman_x >= target

\* The walking transformation of handle_movement.
Walked == IF theman_direction = "Left" THEN theman_x - WalkStep
          ELSE IF theman_direction = "Right" THEN theman_x + WalkStep
          ELSE theman_x

handle_movement ==
    /\ Runs("handle_movement")
    /\ IF theman_state = "Walking" /\ NavigationReached
       THEN /\ theman_state' = "Idle"
            /\ state_changed' = TRUE
            /\ nav_remove' = TRUE
            /\ UNCHANGED theman_x
       ELSE IF theman_state = "Walking"
       THEN /\ Walked \in (0 - WorldLeft)..WorldRight
            /\ theman_x' = Walked
            /\ UNCHANGED << theman_state, state_changed, nav_remove >>
       ELSE UNCHANGED << theman_state, state_changed, nav_remove, theman_x >>
    /\ UNCHANGED << inputs, theman_direction, theman_sprite, theman_config, navigation, in_range,
                    removed_navigation, msgVars, overlap_commands, nav_insert, propVars,
                    probe, histVars, santa >>

\* The InteractionEvents handle_interactions writes: one per InRange, when the
\* state it sees changed is Action.
Interactions(state, changed, range) ==
    IF changed /\ state = "Action" /\ range # {}
    THEN << CHOOSE id \in range : TRUE >>
    ELSE << >>

\* handle_interactions, for a character in the given State.
HandleInteractions(state, changed, range) ==
    /\ Runs("handle_interactions")
    /\ events_cur' = events_cur \o Interactions(state, changed, range)
    /\ UNCHANGED << inputs, theman_state, theman_direction, theman_x, theman_sprite, theman_config,
                    navigation, in_range, removed_navigation, events_prev, cursor, cmdVars,
                    propVars, probe, seen_x, activation, rising, keyed, dispatched, santa >>

handle_interactions ==
    /\ HandleInteractions(theman_state, state_changed, in_range)
    /\ state_changed' = FALSE
    /\ undispatched' = 0

\* handle_interactions for a character whose position is left open: InRange is
\* absent or names one of the given ids.
handle_interactions_near(ids) ==
    /\ \E range \in {{}} \cup { {id} : id \in ids } :
          HandleInteractions(theman_state, state_changed, range)
    /\ state_changed' = FALSE
    /\ undispatched' = 0

\* handle_interactions for the specifications of the props alone: the character
\* its queries read is any character (any State, changed or not, InRange absent
\* or of one of the given ids).
handle_interactions_any(ids) ==
    /\ Runs("handle_interactions")
    /\ \E written \in { Interactions(state, changed, range) :
                            state \in States, changed \in BOOLEAN,
                            range \in {{}} \cup { {id} : id \in ids } } :
          /\ events_cur' = events_cur \o written
          /\ dispatched' = Dispatched(written)
    /\ UNCHANGED << inputs, manVars, events_prev, cursor, cmdVars, propVars, probe,
                    seen_x, undispatched, activation, rising, keyed, santa >>

\* A plausible slip in handle_chair_interaction: the id of the event is not tested.
ChairInteractionAnyId(man, id) ==
    IF man.state = "Action"
    THEN [man EXCEPT !.x = CHAIR_SIT_X, !.sprite = sitting_sprite,
                     !.config = sitting_config, !.state = "Sitting", !.changed = TRUE]
    ELSE IF man.state = "Sitting"
    THEN [man EXCEPT !.sprite = standing_sprite, !.state = "Idle", !.changed = TRUE]
    ELSE man

\* One iteration of the loop of handle_chair_interaction.
ChairInteraction(man, id) ==
    IF id # "chair" THEN man
    ELSE IF man.state = "Action"
    THEN [man EXCEPT !.x = CHAIR_SIT_X, !.sprite = sitting_sprite,
                     !.config = sitting_config, !.state = "Sitting", !.changed = TRUE]
    ELSE IF man.state = "Sitting"
    THEN [man EXCEPT !.sprite = standing_sprite, !.state = "Idle", !.changed = TRUE]
    ELSE man

RECURSIVE ChairInteractions(_, _)
ChairInteractions(man, ids) ==
    IF ids = << >> THEN man
    ELSE ChairInteractions(ChairInteraction(man, Head(ids)), Tail(ids))

handle_chair_interaction ==
    /\ Runs("handle_chair_interaction")
    /\ LET man == ChairInteractions([state |-> theman_state, sprite |-> theman_sprite,
                                     config |-> theman_config,
                                     x |-> theman_x, changed |-> state_changed],
                                    Unread("theman"))
       IN  /\ theman_state' = man.state
           /\ theman_sprite' = man.sprite
           /\ theman_config' = man.config
           /\ theman_x' = man.x
           /\ state_changed' = man.changed
    /\ cursor' = ReadAll("theman")
    /\ rising' = (rising /\ \A i \in 1..Len(Unread("theman")) : Unread("theman")[i] # "chair")
    /\ UNCHANGED << inputs, theman_direction, navigation, in_range, removed_navigation,
                    events_prev, events_cur, cmdVars, propVars, probe, seen_x, undispatched,
                    activation, keyed, dispatched, santa >>

handle_navigation_finished ==
    /\ Runs("handle_navigation_finished")
    /\ IF removed_navigation
       THEN /\ theman_sprite' = standing_sprite
            /\ theman_state' = "Action"
            /\ state_changed' = TRUE
            /\ undispatched' = undispatched + 1
            /\ activation' = in_range
       ELSE UNCHANGED << theman_sprite, theman_state, state_changed, undispatched,
                         activation >>
    /\ removed_navigation' = FALSE
    /\ UNCHANGED << inputs, theman_direction, theman_x, theman_config, navigation, in_range,
                    msgVars, cmdVars, propVars, probe, seen_x, rising, keyed, dispatched, santa >>

\* ------------------------------------------------------------------- props

\* The match of a handle_interaction.  The fireplace, the stereo and the tree
\* write State and Sprite together (with_sprite); the two light switches write
\* State alone.
Toggle(prop, with_sprite) ==
    IF prop.state = "Off"
    THEN IF with_sprite THEN [prop EXCEPT !.state = "On", !.sprite = running_sprite]
         ELSE [prop EXCEPT !.state = "On"]
    ELSE IF with_sprite THEN [prop EXCEPT !.state = "Off", !.sprite = off_sprite]
         ELSE [prop EXCEPT !.state = "Off"]

\* The prop after a write through Mut<State>: every Changed<State> query sees it.
Touched(prop) ==
    [prop EXCEPT !.changed = [system \in DOMAIN prop.changed |-> TRUE]]

\* A plausible slip in the loop body: the id of the event is not compared.
InteractionAnyId(prop, id, event_id, with_sprite) == Touched(Toggle(prop, with_sprite))

\* One iteration of the loop of handle_interaction of the prop with this id.
Interaction(prop, id, event_id, with_sprite) ==
    IF event_id = id THEN Touched(Toggle(prop, with_sprite)) ELSE prop

\* A plausible slip in handle_interaction: one toggle per run, however many
\* matching events the reader holds.
HandleInteractionOnce(prop, id, event_ids, with_sprite) ==
    IF \E i \in 1..Len(event_ids) : event_ids[i] = id
    THEN Touched(Toggle(prop, with_sprite)) ELSE prop

\* The loop of handle_interaction over the events the reader has not read.
RECURSIVE HandleInteraction(_, _, _, _)
HandleInteraction(prop, id, event_ids, with_sprite) ==
    IF event_ids = << >> THEN prop
    ELSE HandleInteraction(Interaction(prop, id, Head(event_ids), with_sprite), id,
                           Tail(event_ids), with_sprite)

\* A Changed<State> query of a system: what it saw, and that it has now run.
Seen(prop, system) == [prop EXCEPT !.changed[system] = FALSE]

\* A plausible slip in handle_sound: Off does not pause the sink.
HandleSoundNeverPausing(prop) ==
    IF prop.changed.handle_sound
    THEN Seen([prop EXCEPT !.sink = IF prop.state = "On" THEN "playing" ELSE prop.sink],
              "handle_sound")
    ELSE prop

\* handle_sound of a prop: play on On, pause on Off.
HandleSound(prop) ==
    IF prop.changed.handle_sound
    THEN Seen([prop EXCEPT !.sink = IF prop.state = "On" THEN "playing" ELSE "paused"],
              "handle_sound")
    ELSE prop

\* frame_timer.tick(time.delta()) of a Once timer: it stops at its duration.
Ticked(config) ==
    [config EXCEPT !.frame_timer = IF config.frame_timer < FrameTicks
                                   THEN config.frame_timer + 1 ELSE FrameTicks]

\* frame_timer.just_finished() after that tick.
JustFinished(config) ==
    config.frame_timer < FrameTicks /\ Ticked(config).frame_timer = FrameTicks

\* The body of the loop of a handle_animations, the new frame index given: an
\* Off prop is skipped; the timer is ticked, and when it has just finished and
\* the sprite has an atlas, the index is written and the timer made anew.
Animated(prop, new_index) ==
    IF prop.state = "Off" THEN prop
    ELSE IF JustFinished(prop.config) /\ prop.sprite.atlas # << >>
    THEN [prop EXCEPT !.sprite.atlas = << prop.sprite.atlas[1], new_index >>,
                      !.config.frame_timer = 0]
    ELSE [prop EXCEPT !.config = Ticked(prop.config)]

\* The next frame of a looping sheet: the first after the last.
NextFrame(prop) ==
    IF prop.sprite.atlas = << >> THEN 0
    ELSE IF prop.sprite.atlas[2] = prop.config.last_index THEN prop.config.first_index
    ELSE prop.sprite.atlas[2] + 1

\* A plausible slip in the Walking arm of theman::handle_animations: the index
\* advances on the last frame too.
WalkingFrameUnwrapped(sprite, config) == sprite.atlas[2] + 1

\* The Walking arm of theman::handle_animations: the sheet loops.
WalkingFrame(sprite, config) ==
    IF sprite.atlas[2] = config.last_index THEN config.first_index
    ELSE sprite.atlas[2] + 1

\* theman::handle_animations: Idle and Action are skipped; Sitting plays once
\* and holds the last frame, its timer left finished; Walking loops.
handle_animations ==
    /\ Runs("handle_animations")
    /\ IF theman_state \in {"Idle", "Action"}
       THEN UNCHANGED << theman_sprite, theman_config >>
       ELSE IF JustFinished(theman_config) /\ theman_sprite.atlas # << >>
               /\ (theman_state = "Sitting"
                      => theman_sprite.atlas[2] < theman_config.last_index)
       THEN /\ theman_sprite' =
                  [theman_sprite EXCEPT !.atlas[2] =
                      IF theman_state = "Sitting" THEN @ + 1
                      ELSE WalkingFrame(theman_sprite, theman_config)]
            /\ theman_config' = [theman_config EXCEPT !.frame_timer = 0]
       ELSE /\ theman_sprite' = theman_sprite
            /\ theman_config' = Ticked(theman_config)
    /\ UNCHANGED << inputs, theman_state, theman_direction, theman_x, state_changed,
                    navigation, in_range, removed_navigation, msgVars, cmdVars, propVars,
                    probe, histVars, santa >>

\* Applying queued inserts and removes of a component, in order.
RECURSIVE ApplyFlickering(_, _)
ApplyFlickering(present, commands) ==
    IF commands = << >> THEN present
    ELSE ApplyFlickering(IF Head(commands) = "insert" THEN TRUE
                         ELSE IF Head(commands) = "remove" THEN FALSE
                         ELSE present,
                         Tail(commands))

\* --------------------------------------------------------------- fireplace

fireplace_handle_interaction ==
    /\ Runs("fireplace::handle_interaction")
    /\ fireplace' = HandleInteraction(fireplace, "fireplace", Unread("fireplace"), TRUE)
    /\ cursor' = ReadAll("fireplace")
    /\ UNCHANGED << inputs, manVars, events_prev, events_cur, cmdVars, fireplace_commands,
                    stereo, treeVars, atticVars, houseVars, probe, histVars, santa >>

fireplace_handle_sound ==
    /\ Runs("fireplace::handle_sound")
    /\ fireplace' = HandleSound(fireplace)
    /\ UNCHANGED << inputs, manVars, msgVars, cmdVars, fireplace_commands, stereo,
                    treeVars, atticVars, houseVars, probe, histVars, santa >>

\* A plausible slip in fireplace::handle_animations: the random frame is not
\* drawn again when it is the one shown.
fireplace_handle_animations_repeating ==
    /\ Runs("fireplace::handle_animations")
    /\ \E new_index \in fireplace.config.first_index..fireplace.config.last_index :
          fireplace' = Animated(fireplace, new_index)
    /\ UNCHANGED << inputs, manVars, msgVars, cmdVars, fireplace_commands, stereo,
                    treeVars, atticVars, houseVars, probe, histVars, santa >>

\* fireplace::handle_animations: the new frame is random, and never the one shown.
fireplace_handle_animations ==
    /\ Runs("fireplace::handle_animations")
    /\ \E new_index \in fireplace.config.first_index..fireplace.config.last_index :
          /\ fireplace.sprite.atlas # << >> => new_index # fireplace.sprite.atlas[2]
          /\ fireplace' = Animated(fireplace, new_index)
    /\ UNCHANGED << inputs, manVars, msgVars, cmdVars, fireplace_commands, stereo,
                    treeVars, atticVars, houseVars, probe, histVars, santa >>

\* A plausible slip in fireplace::handle_light: Off zeroes the intensity and
\* leaves the component.
fireplace_handle_light_keeping ==
    /\ Runs("fireplace::handle_light")
    /\ IF fireplace.changed.handle_light
       THEN IF fireplace.state = "On"
            THEN /\ fireplace_commands' = Append(fireplace_commands, "insert")
                 /\ fireplace' = Seen(fireplace, "handle_light")
            ELSE /\ fireplace_commands' = fireplace_commands
                 /\ fireplace' = Seen([fireplace EXCEPT !.intensity = 0], "handle_light")
       ELSE UNCHANGED << fireplace, fireplace_commands >>
    /\ UNCHANGED << inputs, manVars, msgVars, cmdVars, stereo, treeVars, atticVars,
                    houseVars, probe, histVars, santa >>

\* fireplace::handle_light: insert FlickeringLight on On; remove it and zero the
\* intensity on Off.  The insert and the remove are Commands.
fireplace_handle_light ==
    /\ Runs("fireplace::handle_light")
    /\ IF fireplace.changed.handle_light
       THEN IF fireplace.state = "On"
            THEN /\ fireplace_commands' = Append(fireplace_commands, "insert")
                 /\ fireplace' = Seen(fireplace, "handle_light")
            ELSE /\ fireplace_commands' = Append(fireplace_commands, "remove")
                 /\ fireplace' = Seen([fireplace EXCEPT !.intensity = 0], "handle_light")
       ELSE UNCHANGED << fireplace, fireplace_commands >>
    /\ UNCHANGED << inputs, manVars, msgVars, cmdVars, stereo, treeVars, atticVars,
                    houseVars, probe, histVars, santa >>

\* ------------------------------------------------------------------ stereo

stereo_handle_interaction ==
    /\ Runs("stereo::handle_interaction")
    /\ stereo' = HandleInteraction(stereo, "stereo", Unread("stereo"), TRUE)
    /\ cursor' = ReadAll("stereo")
    /\ UNCHANGED << inputs, manVars, events_prev, events_cur, cmdVars, fireVars,
                    treeVars, atticVars, houseVars, probe, histVars, santa >>

\* stereo::handle_animations: the sheet loops.
stereo_handle_animations ==
    /\ Runs("stereo::handle_animations")
    /\ stereo' = Animated(stereo, NextFrame(stereo))
    /\ UNCHANGED << inputs, manVars, msgVars, cmdVars, fireVars, treeVars, atticVars,
                    houseVars, probe, histVars, santa >>

stereo_handle_sound ==
    /\ Runs("stereo::handle_sound")
    /\ stereo' = HandleSound(stereo)
    /\ UNCHANGED << inputs, manVars, msgVars, cmdVars, fireVars, treeVars, atticVars,
                    houseVars, probe, histVars, santa >>

\* -------------------------------------------------------------------- tree

tree_handle_interaction ==
    /\ Runs("tree::handle_interaction")
    /\ LET handled == HandleInteraction(tree, "tree", Unread("tree"), TRUE)
       IN  tree' = [handled EXCEPT !.turned_on = @ \/ handled.state = "On"]
    /\ cursor' = ReadAll("tree")
    /\ UNCHANGED << inputs, manVars, events_prev, events_cur, cmdVars, fireVars, stereo,
                    tree_commands, atticVars, houseVars, probe, histVars, santa >>

\* tree::handle_animations: the new frame is random, and never the one shown.
tree_handle_animations ==
    /\ Runs("tree::handle_animations")
    /\ \E new_index \in tree.config.first_index..tree.config.last_index :
          /\ tree.sprite.atlas # << >> => new_index # tree.sprite.atlas[2]
          /\ tree' = Animated(tree, new_index)
    /\ UNCHANGED << inputs, manVars, msgVars, cmdVars, fireVars, stereo, tree_commands,
                    atticVars, houseVars, probe, histVars, santa >>

\* LightTransition::new with the given random_color twice and random_intensity.
NewTransition(current_color, target_color, target) ==
    [current_color |-> current_color, target_color |-> target_color,
     current_intensity |-> 0, target_intensity |-> target, progress |-> 0]

\* tree::handle_light_state: insert a new LightTransition on On; zero the
\* intensity and remove the LightTransition on Off.  Both are Commands.
tree_handle_light_state ==
    /\ Runs("tree::handle_light_state")
    /\ IF tree.changed.handle_light_state
       THEN IF tree.state = "On"
            THEN /\ \E current_color \in RandomColors, target_color \in RandomColors,
                         target \in IntensitySamples :
                      tree_commands' = Append(tree_commands,
                          [op |-> "insert",
                           transition |-> NewTransition(current_color, target_color, target)])
                 /\ tree' = Seen(tree, "handle_light_state")
            ELSE /\ tree_commands' = Append(tree_commands, [op |-> "remove"])
                 /\ tree' = Seen([tree EXCEPT !.intensity = 0], "handle_light_state")
       ELSE UNCHANGED << tree, tree_commands >>
    /\ UNCHANGED << inputs, manVars, msgVars, cmdVars, fireVars, stereo, atticVars,
                    houseVars, probe, histVars, santa >>

\* (1 - cos(PI * progress)) / 2 in thousandths, progress counted in ticks out of
\* TransitionTicks.
Eased(progress) ==
    CASE 2 * progress = TransitionTicks     -> 500
      [] 3 * progress = TransitionTicks     -> 250
      [] 3 * progress = 2 * TransitionTicks -> 750
      [] 4 * progress = TransitionTicks     -> 146
      [] 4 * progress = 3 * TransitionTicks -> 854
      [] OTHER -> (1000 * progress) \div TransitionTicks

\* (target - current).mul_add(eased_t, current), in thousandths.
Lerp(current, target, eased_t) == ((target - current) * eased_t) \div 1000 + current

\* The colors the loop of randomize can end with: random_color is drawn again
\* while it equals current_color.
NewColors(transition) == RandomColors \ {transition.current_color}

\* LightTransition::randomize with the given new_color and random_intensity.
Randomized(transition, new_color, target) ==
    [current_color |-> transition.target_color, target_color |-> new_color,
     current_intensity |-> transition.target_intensity, target_intensity |-> target,
     progress |-> 0]

\* tree::handle_light_transition: the tree's light follows its LightTransition,
\* when it has one.
tree_handle_light_transition ==
    /\ Runs("tree::handle_light_transition")
    /\ IF tree.transition = << >> THEN UNCHANGED tree
       ELSE LET transition == tree.transition[1]
                progress == transition.progress + 1
            IN  IF progress >= TransitionTicks
                THEN \E new_color \in NewColors(transition), target \in IntensitySamples :
                        tree' = [tree EXCEPT !.transition =
                                    << Randomized(transition, new_color, target) >>]
                ELSE tree' = [tree EXCEPT
                        !.transition = << [transition EXCEPT !.progress = progress] >>,
                        !.intensity = Lerp(transition.current_intensity,
                                           transition.target_intensity, Eased(progress))]
    /\ UNCHANGED << inputs, manVars, msgVars, cmdVars, fireVars, stereo, tree_commands,
                    atticVars, houseVars, probe, histVars, santa >>

\* Applying the queued inserts and removes of the LightTransition, in order.
RECURSIVE ApplyTransition(_, _)
ApplyTransition(transition, commands) ==
    IF commands = << >> THEN transition
    ELSE ApplyTransition(IF Head(commands).op = "insert"
                         THEN << Head(commands).transition >> ELSE << >>,
                         Tail(commands))

\* tree::handle_interaction_disable_highlight: a changed State that is On ends
\* the highlighting.
tree_handle_interaction_disable_highlight ==
    /\ Runs("tree::handle_interaction_disable_highlight")
    /\ tree' = IF tree.changed.handle_interaction_disable_highlight
               THEN Seen([tree EXCEPT !.first = IF tree.state = "On" THEN FALSE ELSE @],
                         "handle_interaction_disable_highlight")
               ELSE tree
    /\ UNCHANGED << inputs, manVars, msgVars, cmdVars, fireVars, stereo, tree_commands,
                    atticVars, houseVars, probe, histVars, santa >>

\* The branch of handle_highlight that writes the pulse.
Pulses(prop) == prop.highlight /\ prop.state = "Off" /\ prop.first

\* tree::handle_highlight: a Tree with a Highlight pulses while it is Off and
\* has not been interacted with, and is white at scale 1 otherwise.
tree_handle_highlight ==
    /\ Runs("tree::handle_highlight")
    /\ tree' = IF tree.highlight THEN [tree EXCEPT !.pulsing = Pulses(tree)] ELSE tree
    /\ UNCHANGED << inputs, manVars, msgVars, cmdVars, fireVars, stereo, tree_commands,
                    atticVars, houseVars, probe, histVars, santa >>

\* tree::handle_highlight_reset: the sprite is reset when the Highlight was removed.
tree_handle_highlight_reset ==
    /\ Runs("tree::handle_highlight_reset")
    /\ tree' = IF tree.removed_highlight
               THEN [tree EXCEPT !.pulsing = FALSE, !.removed_highlight = FALSE]
               ELSE tree
    /\ UNCHANGED << inputs, manVars, msgVars, cmdVars, fireVars, stereo, tree_commands,
                    atticVars, houseVars, probe, histVars, santa >>

\* The Highlight component is inserted on and removed from the Tree by the
\* proximity tracker (the interaction.rs that defines Highlight is not under
\* src/): once a tick it is inserted, removed or left as it is.
interaction_highlight ==
    /\ Runs("interaction::highlight")
    /\ \E highlight \in BOOLEAN :
          tree' = [tree EXCEPT !.highlight = highlight,
                               !.removed_highlight = @ \/ (tree.highlight /\ ~highlight)]
    /\ UNCHANGED << inputs, manVars, msgVars, cmdVars, fireVars, stereo, tree_commands,
                    atticVars, houseVars, probe, histVars, santa >>

\* ------------------------------------------------------------- attic_light

attic_light_handle_interaction ==
    /\ Runs("attic_light::handle_interaction")
    /\ attic_light' = HandleInteraction(attic_light, "attic-light", Unread("attic_light"),
                                        FALSE)
    /\ cursor' = ReadAll("attic_light")
    /\ UNCHANGED << inputs, manVars, events_prev, events_cur, cmdVars, fireVars, stereo,
                    treeVars, attic_commands, houseVars, probe, histVars, santa >>

\* A plausible slip in attic_light::handle_light: the child is not looked up in
\* light_query.
attic_light_handle_light_unchecked ==
    /\ Runs("attic_light::handle_light")
    /\ IF attic_light.changed.handle_light
       THEN IF attic_light.state = "On"
            THEN /\ attic_commands' = attic_commands \o << "spawn_on", "insert" >>
                 /\ attic_light' = Seen(attic_light, "handle_light")
            ELSE /\ attic_commands' = attic_commands \o << "spawn_off", "remove" >>
                 /\ attic_light' = Seen([attic_light EXCEPT !.intensity = 0], "handle_light")
       ELSE UNCHANGED << attic_light, attic_commands >>
    /\ UNCHANGED << inputs, manVars, msgVars, cmdVars, fireVars, stereo, treeVars,
                    houseVars, probe, histVars, santa >>

\* attic_light::handle_light, for the one child: when light_query finds it, a
\* one-shot switch sound is spawned; FlickeringLight is inserted on On, removed
\* on Off, where the intensity is zeroed.  A child that light_query does not
\* find is passed over.
attic_light_handle_light ==
    /\ Runs("attic_light::handle_light")
    /\ IF attic_light.changed.handle_light /\ attic_light.light
       THEN IF attic_light.state = "On"
            THEN /\ attic_commands' = attic_commands \o << "spawn_on", "insert" >>
                 /\ attic_light' = Seen(attic_light, "handle_light")
            ELSE /\ attic_commands' = attic_commands \o << "spawn_off", "remove" >>
                 /\ attic_light' = Seen([attic_light EXCEPT !.intensity = 0], "handle_light")
       ELSE /\ attic_light' = Seen(attic_light, "handle_light")
            /\ UNCHANGED attic_commands
    /\ UNCHANGED << inputs, manVars, msgVars, cmdVars, fireVars, stereo, treeVars,
                    houseVars, probe, histVars, santa >>

\* ------------------------------------------------------------ house_lights

house_lights_handle_interaction ==
    /\ Runs("house_lights::handle_interaction")
    /\ house_lights' = HandleInteraction(house_lights, "light-switch",
                                         Unread("house_lights"), FALSE)
    /\ cursor' = ReadAll("house_lights")
    /\ UNCHANGED << inputs, manVars, events_prev, events_cur, cmdVars, fireVars, stereo,
                    treeVars, atticVars, house_commands, probe, histVars, santa >>

\* Whether the Switch entity carries InRange, the With<InRange> filter of
\* house_lights::handle_light: detect_overlaps inserts InRange on the interactor
\* entity alone, and nothing else inserts it.
SwitchInRange == FALSE

\* The Commands of house_lights::handle_light for its children, in order.
RECURSIVE HouseCommands(_, _)
HouseCommands(child, on) ==
    IF child > XMAS_LIGHTS THEN << >>
    ELSE << [op |-> IF on THEN "spawn_on" ELSE "spawn_off", child |-> child],
            [op |-> IF on THEN "insert" ELSE "remove", child |-> child] >>
         \o HouseCommands(child + 1, on)

\* house_lights::handle_light: for a Switch In Range whose State changed, the
\* Sprite of the switch follows the State, and every child light gets
\* FlickeringLight on On, loses it and its intensity on Off.
house_lights_handle_light ==
    /\ Runs("house_lights::handle_light")
    /\ IF house_lights.changed.handle_light /\ SwitchInRange
       THEN IF house_lights.state = "On"
            THEN /\ house_commands' = house_commands \o HouseCommands(0, TRUE)
                 /\ house_lights' = Seen([house_lights EXCEPT
                                            !.sprite = [image |-> "switch_on"]],
                                         "handle_light")
            ELSE /\ house_commands' = house_commands \o HouseCommands(0, FALSE)
                 /\ house_lights' = Seen([house_lights EXCEPT
                                            !.sprite = [image |-> "switch_off"],
                                            !.intensity = [c \in Children |-> 0]],
                                         "handle_light")
       ELSE /\ house_lights' = Seen(house_lights, "handle_light")
            /\ UNCHANGED house_commands
    /\ UNCHANGED << inputs, manVars, msgVars, cmdVars, fireVars, stereo, treeVars,
                    atticVars, probe, histVars, santa >>

\* Applying the queued inserts and removes of FlickeringLight to the children.
RECURSIVE ApplyHouseCommands(_, _)
ApplyHouseCommands(flickering, commands) ==
    IF commands = << >> THEN flickering
    ELSE ApplyHouseCommands(
            IF Head(commands).op = "insert" THEN flickering \cup {Head(commands).child}
            ELSE IF Head(commands).op = "remove" THEN flickering \ {Head(commands).child}
            ELSE flickering,
            Tail(commands))


\* ------------------------------------------------------------------- santa

\* The custom frame timing of santa::handle_animations: the frames it holds
\* (2, 3, 7, 12, 19..23, 27) get a timer longer than the one of timer_from_fps.
FrameDuration(index) ==
    IF index \in {2, 3, 7, 12, 27} \cup 19..23 THEN FrameTicks + 1 ELSE FrameTicks

\* A plausible slip in santa::handle_animations: every finished run adds presents.
SantaAnimatedAlwaysAdding(s) ==
    IF ~(s.run /\ s.sprite) THEN s
    ELSE IF s.config.frame_timer < s.duration /\ s.config.frame_timer + 1 = s.duration
            /\ s.atlas # << >>
    THEN IF s.atlas[1] < s.config.last_index
         THEN [s EXCEPT !.atlas = << s.atlas[1] + 1 >>, !.config.frame_timer = 0,
                        !.duration = FrameDuration(s.atlas[1] + 1)]
         ELSE [s EXCEPT !.atlas = << >>, !.config.frame_timer = 0,
                        !.duration = FrameDuration(s.atlas[1]),
                        !.finish = Append(s.finish, "remove"),
                        !.added = s.added + 1]
    ELSE [s EXCEPT !.config.frame_timer =
                      IF s.config.frame_timer < s.duration
                      THEN s.config.frame_timer + 1 ELSE s.duration]

\* A plausible slip in santa::handle_animations: the animation loops, the index
\* wraps from last_index to first_index and the run is never finished.
SantaAnimatedLooping(s) ==
    IF ~(s.run /\ s.sprite) THEN s
    ELSE IF s.config.frame_timer < s.duration /\ s.config.frame_timer + 1 = s.duration
            /\ s.atlas # << >>
    THEN LET index == IF s.atlas[1] < s.config.last_index THEN s.atlas[1] + 1
                      ELSE s.config.first_index
         IN [s EXCEPT !.atlas = << index >>, !.config.frame_timer = 0,
                      !.duration = FrameDuration(index)]
    ELSE [s EXCEPT !.config.frame_timer =
                      IF s.config.frame_timer < s.duration
                      THEN s.config.frame_timer + 1 ELSE s.duration]

\* The body of the loop of santa::handle_animations, for a Santa with Run and
\* Sprite: the timer is ticked; when it has just finished and the sprite has an
\* atlas, the index advances, or, on the last index, the run is finished: the
\* sprite becomes Sprite::default(), the removal of Run and Sprite is queued,
\* and an AddPresentsEvent is written if the index is 27.
SantaAnimated(s) ==
    IF ~(s.run /\ s.sprite) THEN s
    ELSE IF s.config.frame_timer < s.duration /\ s.config.frame_timer + 1 = s.duration
            /\ s.atlas # << >>
    THEN IF s.atlas[1] < s.config.last_index
         THEN [s EXCEPT !.atlas = << s.atlas[1] + 1 >>, !.config.frame_timer = 0,
                        !.duration = FrameDuration(s.atlas[1] + 1)]
         ELSE [s EXCEPT !.atlas = << >>, !.config.frame_timer = 0,
                        !.duration = FrameDuration(s.atlas[1]),
                        !.finish = Append(s.finish, "remove"),
                        !.added = IF s.atlas[1] = 27 THEN s.added + 1 ELSE s.added]
    ELSE [s EXCEPT !.config.frame_timer =
                      IF s.config.frame_timer < s.duration
                      THEN s.config.frame_timer + 1 ELSE s.duration]

santa_handle_animations ==
    /\ Runs("santa::handle_animations")
    /\ santa' = SantaAnimated(santa)
    /\ UNCHANGED << inputs, manVars, msgVars, cmdVars, propVars, probe, histVars >>

\* The body of the loops of santa::handle_start for one SantasHereEvent:
\* has_presents is what the queries of the tree's children answer.
SantaStarted(s, has_presents) ==
    [s EXCEPT !.config = IF has_presents THEN AnimationConfig(0, 7, 6)
                         ELSE AnimationConfig(0, 27, 6),
              !.duration = FrameTicks,
              !.start = Append(s.start, has_presents)]

\* santa::handle_start: it reads every SantasHereEvent.  The tree's children are
\* the same for each event of one run.
santa_handle_start ==
    /\ Runs("santa::handle_start")
    /\ \E has_presents \in BOOLEAN :
          santa' = [(IF santa.here > 0 THEN SantaStarted(santa, has_presents) ELSE santa)
                      EXCEPT !.here = 0]
    /\ UNCHANGED << inputs, manVars, msgVars, cmdVars, propVars, probe, histVars >>

\* The Santa entity after one system's queue of Commands.
SantaInserted(s) ==
    IF s.start = << >> THEN s
    ELSE [s EXCEPT !.run = TRUE, !.sprite = TRUE, !.atlas = << 0 >>,
                   !.with_presents = s.start[Len(s.start)]]

SantaRemoved(s) ==
    IF s.finish = << >> THEN s
    ELSE [s EXCEPT !.run = FALSE, !.sprite = FALSE, !.atlas = << >>]

\* A frame begins: a SantasHereEvent may have been written.
santa_begin_tick ==
    /\ phase = "input"
    /\ phase' = "update"
    /\ \E here \in 0..1 : santa' = [santa EXCEPT !.here = here]
    /\ UNCHANGED << ran, inputs, manVars, msgVars, cmdVars, propVars, probe, histVars >>

\* The end of the Update schedule for Santa: the two systems' queues are applied
\* one after the other, in the order of the schedule graph.
santa_apply_deferred(Systems) ==
    /\ phase = "update"
    /\ ran = Systems
    /\ phase' = "input"
    /\ ran' = {}
    /\ \E applied \in { SantaRemoved(SantaInserted(santa)), SantaInserted(SantaRemoved(santa)) } :
          santa' = [applied EXCEPT !.start = << >>, !.finish = << >>, !.added = 0]
    /\ UNCHANGED << inputs, manVars, msgVars, cmdVars, propVars, probe, histVars >>

\* ---------------------------------------------------------------------------
\* noise.rs: fractal Brownian motion over 2D Perlin noise.
\*
\* A coordinate is a multiple of 1 / Grid and is held as that multiple; every
\* value derived from it is an exact fraction held as its numerator over the
\* denominator named beside the operator, so that no result is rounded.

\* Permutation table for deterministic pseudo-randomness.
PERMUTATION ==
    <<
        151, 160, 137, 91, 90, 15, 131, 13, 201, 95, 96, 53, 194, 233, 7, 225,
        140, 36, 103, 30, 69, 142, 8, 99, 37, 240, 21, 10, 23, 190, 6, 148,
        247, 120, 234, 75, 0, 26, 197, 62, 94, 252, 219, 203, 117, 35, 11, 32,
        57, 177, 33, 88, 237, 149, 56, 87, 174, 20, 125, 136, 171, 168, 68, 175,
        74, 165, 71, 134, 139, 48, 27, 166, 77, 146, 158, 231, 83, 111, 229, 122,
        60, 211, 133, 230, 220, 105, 92, 41, 55, 46, 245, 40, 244, 102, 143, 54,
        65, 25, 63, 161, 1, 216, 80, 73, 209, 76, 132, 187, 208, 89, 18, 169,
        200, 196, 135, 130, 116, 188, 159, 86, 164, 100, 109, 198, 173, 186, 3, 64,
        52, 217, 226, 250, 124, 123, 5, 202, 38, 147, 118, 126, 255, 82, 85, 212,
        207, 206, 59, 227, 47, 16, 58, 17, 182, 189, 28, 42, 223, 183, 170, 213,
        119, 248, 152, 2, 44, 154, 163, 70, 221, 153, 101, 155, 167, 43, 172, 9,
        129, 22, 39, 253, 19, 98, 108, 110, 79, 113, 224, 232, 178, 185, 112, 104,
        218, 246, 97, 228, 251, 34, 242, 193, 238, 210, 144, 12, 191, 179, 162, 241,
        81, 51, 145, 235, 249, 14, 239, 107, 49, 192, 214, 31, 181, 199, 106, 157,
        184, 84, 204, 176, 115, 121, 50, 45, 127, 4, 150, 254, 138, 236, 205, 93,
        222, 114, 67, 29, 24, 72, 243, 141, 128, 195, 78, 66, 215, 61, 156, 180
    >>

\* index as usize: the fraction is dropped and a negative value becomes 0.
as_usize(index) == IF index < 0 THEN 0 ELSE index \div Grid

\* Get permutation value with wrapping.
perm(index) == PERMUTATION[(as_usize(index) % 256) + 1]

\* One as a value of fade (a numerator over Grid^5).
FadeOne == Grid * Grid * Grid * Grid * Grid

\* One as a value of perlin_2d (two interpolations of a value over Grid).
PerlinOne == Grid * FadeOne * FadeOne

\* Fade function for smooth interpolation: t^3 (t (6 t - 15) + 10), over FadeOne.
fade(t) == t * t * t * (t * (6 * t - 15 * Grid) + 10 * Grid * Grid)

\* Compute gradient using hash value to select from 8 possible gradient directions.
grad(hash, x, y) ==
    LET h      == hash % 8
        u      == IF h < 4 THEN x ELSE y
        v      == IF h < 4 THEN y ELSE x
        u_sign == IF h % 2 = 0 THEN u ELSE 0 - u
        v_sign == IF (h \div 2) % 2 = 0 THEN v ELSE 0 - v
    IN  u_sign + v_sign

\* Linear interpolation a + t (b - a); t is over FadeOne, so the result is over
\* FadeOne times the denominator of a and b.
lerp(t, a, b) == t * (b - a) + a * FadeOne

\* 2D Perlin noise at the given coordinates, over PerlinOne.
perlin_2d(x, y) ==
    LET x_rel == x - (x \div Grid) * Grid
        y_rel == y - (y \div Grid) * Grid
        u     == fade(x_rel)
        v     == fade(y_rel)
        a     == perm(x) * Grid + y
        b     == perm(x + Grid) * Grid + y
        aa    == perm(a)
        ab    == perm(a + Grid)
        ba    == perm(b)
        bb    == perm(b + Grid)
    IN  lerp(v,
             lerp(u, grad(aa, x_rel, y_rel), grad(ba, x_rel - Grid, y_rel)),
             lerp(u, grad(ab, x_rel, y_rel - Grid), grad(bb, x_rel - Grid, y_rel - Grid)))

\* 2^n.
RECURSIVE Pow2(_)
Pow2(n) == IF n = 0 THEN 1 ELSE 2 * Pow2(n - 1)

\* The loop of generate from octave i on: << total, max_value >> with the
\* amplitude 0.5^i of octave i held as 2^(octaves - 1 - i) and the frequency as 2^i.
RECURSIVE Octaves(_, _, _, _)
Octaves(x, y, i, octaves) ==
    IF i >= octaves THEN << 0, 0 >>
    ELSE LET amplitude == Pow2(octaves - 1 - i)
             frequency == Pow2(i)
             rest      == Octaves(x, y, i + 1, octaves)
         IN  << perlin_2d(x * frequency, y * frequency) * amplitude + rest[1],
                amplitude + rest[2] >>

\* total / max_value as f32 division gives it: 0.0 / 0.0 is NaN, any other
\* quotient here is the fraction num / den (den > 0).
Quotient(total, max_value) ==
    IF max_value = 0
    THEN [nan |-> TRUE, num |-> 0, den |-> 0]
    ELSE [nan |-> FALSE, num |-> total, den |-> max_value * PerlinOne]

\* generate without the division by max_value.
generate_unnormalized(x, y, octaves) ==
    LET sums == Octaves(x, y, 0, octaves)
    IN  [nan |-> FALSE, num |-> sums[1],
         den |-> PerlinOne * (IF octaves = 0 THEN 1 ELSE Pow2(octaves - 1))]

\* generate with the time of the call added to x.
generate_clocked(x, y, octaves) ==
    LET sums == Octaves(x + probe.elapsed, y, 0, octaves)
    IN  Quotient(sums[1], sums[2])

\* Noise generation combining fractal brownian motion and multiple octaves of
\* Perlin noise.
generate(x, y, octaves) ==
    LET sums == Octaves(x, y, 0, octaves)
    IN  Quotient(sums[1], sums[2])

\* ---------------------------------------------------------------------------
\* Timers: the StepTimer of theman.rs and the frame_timer of animation.rs.
\*
\* A duration made from `seconds` is held in updates (seconds * TickRate) and
\* time.delta() is 1; a duration 1 / fps is held as TickRate over a delta of fps.

\* The construction panicked.
Panicked == [panic |-> TRUE, mode |-> "Once", duration |-> 0, delta |-> 0, elapsed |-> 0,
             finished |-> FALSE, times_finished_this_tick |-> 0]

\* Timer::new(duration, mode): any Duration is taken, zero included.
Timer_new(duration, delta, mode) ==
    [panic |-> FALSE, mode |-> mode, duration |-> duration, delta |-> delta, elapsed |-> 0,
     finished |-> FALSE, times_finished_this_tick |-> 0]

\* Timer::from_seconds(seconds, mode): Duration::from_secs_f32 panics on a
\* negative value and takes 0.0.
Timer_from_seconds(seconds, mode) ==
    IF seconds < 0 THEN Panicked ELSE Timer_new(seconds * TickRate, 1, mode)

\* AnimationConfig::timer_from_fps(fps): 1.0 / 0.0 is infinite, on which
\* Duration::from_secs_f32 panics.
timer_from_fps(fps) ==
    IF fps = 0 THEN Panicked ELSE Timer_new(TickRate, fps, "Once")

\* The most times a repeating Timer is counted to finish in one tick (u32::MAX in
\* the library, for a duration of zero).
ManyTimes == 9

\* Timer::tick(time.delta()).
Timer_tick(timer) ==
    IF timer.mode = "Once" /\ timer.finished
    THEN [timer EXCEPT !.times_finished_this_tick = 0]
    ELSE LET elapsed == timer.elapsed + timer.delta
         IN  IF elapsed < timer.duration
             THEN [timer EXCEPT !.elapsed = elapsed, !.finished = FALSE,
                                !.times_finished_this_tick = 0]
             ELSE IF timer.mode = "Once"
             THEN [timer EXCEPT !.elapsed = timer.duration, !.finished = TRUE,
                                !.times_finished_this_tick = 1]
             ELSE IF timer.duration = 0
             THEN [timer EXCEPT !.elapsed = 0, !.finished = TRUE,
                                !.times_finished_this_tick = ManyTimes]
             ELSE [timer EXCEPT !.elapsed = elapsed % timer.duration, !.finished = TRUE,
                                !.times_finished_this_tick = elapsed \div timer.duration]

\* ---------------------------------------------------------------------------
\* flickering_light.rs: softmax and weights.
\*
\* A logit is a multiple of 1 / ExpGrid, a temperature a multiple of
\* 1 / TempGrid, a value of exp a multiple of 1 / ExpOne and a weight a multiple
\* of 1 / WeightOne; a quotient is rounded to the nearest multiple, as f32
\* division rounds to the nearest f32.
ExpGrid == 4
TempGrid == 2
ExpOne == 1000
WeightOne == 1000

\* a / b rounded to the nearest integer (b > 0).
Rounded(a, b) == (2 * a + b) \div (2 * b)

\* exp(q / ExpGrid) * ExpOne for q of ExpLow..ExpHigh.
ExpLow == 0 - 32
ExpHigh == 28
EXP ==
    <<
        0, 0, 1, 1, 1, 1, 2, 2,
        2, 3, 4, 5, 7, 9, 11, 14,
        18, 24, 30, 39, 50, 64, 82, 105,
        135, 174, 223, 287, 368, 472, 607, 779,
        1000, 1284, 1649, 2117, 2718, 3490, 4482, 5755,
        7389, 9488, 12182, 15643, 20086, 25790, 33115, 42521,
        54598, 70105, 90017, 115584, 148413, 190566, 244692, 314191,
        403429, 518013, 665142, 854059, 1096633
    >>

\* f32::exp: below the table the value is rounded to 0; the arguments of the
\* model stay below ExpHigh, beyond which the product with WeightOne is no
\* number of the model.
exp(q) == IF q < ExpLow THEN 0 ELSE EXP[q - ExpLow + 1]

\* The start of the fold of max_logit.
NEG_INFINITY == 0 - 1000000

\* logits.iter().map(|x| x / temperature)
scaled_logits(logits, temperature) ==
    [i \in 1..Len(logits) |-> Rounded(logits[i] * TempGrid, temperature)]

\* max_logit when the logits are not shifted.
max_logit_unshifted(scaled) == 0

\* scaled_logits.iter().fold(f32::NEG_INFINITY, |a, &b| a.max(b))
RECURSIVE max_logit(_)
max_logit(scaled) ==
    IF scaled = << >> THEN NEG_INFINITY
    ELSE LET a == max_logit(SubSeq(scaled, 1, Len(scaled) - 1))
             b == scaled[Len(scaled)]
         IN  IF a >= b THEN a ELSE b

\* scaled_logits.iter().map(|x| (x - max_logit).exp())
exp_values(scaled) ==
    [i \in 1..Len(scaled) |-> exp(scaled[i] - max_logit(scaled))]

\* exp_values.iter().sum()
RECURSIVE sum(_)
sum(values) ==
    IF values = << >> THEN 0 ELSE values[1] + sum(Tail(values))

\* Apply softmax normalization with a temperature parameter.
softmax(logits, temperature) ==
    LET values == exp_values(scaled_logits(logits, temperature))
    IN  [i \in 1..Len(values) |-> Rounded(values[i] * WeightOne, sum(values))]

\* noise_value as f32: the fraction of generate rounded to a logit.
noise_value(answer) == Rounded(answer.num * ExpGrid, answer.den)

\* The loop of weights: logits.push(noise_value) for i in 0..number.
logits_of(time, seed, frequency, number, octaves, seed_offset) ==
    [k \in 1..number |->
        LET i          == k - 1
            color_seed == i * seed_offset + seed
        IN  noise_value(generate(time * frequency, color_seed, octaves))]

\* Generate weights using softmax normalization of noise-generated logits.
weights(time, seed, frequency, number, octaves, seed_offset, temperature) ==
    softmax(logits_of(time, seed, frequency, number, octaves, seed_offset), temperature)

\* ------------------------------------------------------------- end of tick

\* The Navigation component after the queued insert and remove, which come from
\* two systems whose queues are applied in the order of the schedule graph.
NavigationApplied ==
    IF nav_remove /\ nav_insert # {} THEN { {}, nav_insert }
    ELSE IF nav_remove THEN { {} }
    ELSE IF nav_insert # {} THEN { nav_insert }
    ELSE { navigation }

\* The messages a reader has left to read after the buffers rotate.
Rotated(reader) == IF cursor[reader] > Len(events_prev)
                   THEN cursor[reader] - Len(events_prev) ELSE 0

\* The end of the Update schedule: the deferred Commands are applied, and the
\* message buffers rotate before the next Update.
ApplyDeferred(Systems) ==
    /\ phase = "update"
    /\ ran = Systems
    /\ phase' = "input"
    /\ ran' = {}
    /\ in_range' = ApplyInRange(in_range, overlap_commands)
    /\ navigation' \in NavigationApplied
    /\ removed_navigation' = (removed_navigation \/ nav_remove)
    /\ overlap_commands' = << >>
    /\ nav_insert' = {}
    /\ nav_remove' = FALSE
    /\ events_prev' = events_cur
    /\ events_cur' = << >>
    /\ cursor' = [r \in Readers |-> Rotated(r)]
    /\ fireplace' = [fireplace EXCEPT
                       !.flickering = ApplyFlickering(fireplace.flickering, fireplace_commands)]
    /\ fireplace_commands' = << >>
    /\ tree' = [tree EXCEPT !.transition = ApplyTransition(tree.transition, tree_commands)]
    /\ tree_commands' = << >>
    /\ attic_light' = [attic_light EXCEPT
                         !.flickering = ApplyFlickering(attic_light.flickering, attic_commands)]
    /\ attic_commands' = << >>
    /\ house_lights' = [house_lights EXCEPT
                          !.flickering = ApplyHouseCommands(house_lights.flickering,
                                                            house_commands)]
    /\ house_commands' = << >>
    /\ UNCHANGED << inputs, theman_state, theman_direction, theman_x, theman_sprite, theman_config,
                    state_changed, stereo, probe, histVars, santa >>

\* ------------------------------------------------------------ specifications

\* The character and the proximity tracker, driven by keys and clicks.
TheManSystems == {"detect_overlaps", "handle_messages", "handle_movement",
                  "handle_interactions", "handle_chair_interaction",
                  "handle_navigation_finished"}

NextTheMan ==
    \/ BeginTick(KeyEvents \cup ClickEvents)
    \/ detect_overlaps
    \/ handle_messages
    \/ handle_movement
    \/ handle_interactions
    \/ handle_chair_interaction
    \/ handle_navigation_finished
    \/ ApplyDeferred(TheManSystems)

SpecTheMan == Init /\ [][NextTheMan]_vars

\* The character driven by the keyboard alone: no click, so no Navigation, and
\* handle_navigation_finished has nothing to read.
KeyboardSystems == TheManSystems \ {"handle_navigation_finished"}

NextKeyboard ==
    \/ BeginTick(KeyEvents)
    \/ detect_overlaps
    \/ handle_messages
    \/ handle_movement
    \/ handle_interactions
    \/ handle_chair_interaction
    \/ ApplyDeferred(KeyboardSystems)

SpecKeyboard == Init /\ [][NextKeyboard]_vars

\* The keyboard-driven character next to the fireplace: from the key press to
\* the light of the fireplace.
SceneSystems == {"detect_overlaps", "handle_messages", "handle_movement",
                 "handle_interactions", "fireplace::handle_interaction",
                 "fireplace::handle_light"}

NextScene ==
    \/ BeginTick(KeyEvents)
    \/ detect_overlaps
    \/ handle_messages
    \/ handle_movement
    \/ handle_interactions
    \/ fireplace_handle_interaction
    \/ fireplace_handle_light
    \/ ApplyDeferred(SceneSystems)

SpecScene == Init /\ [][NextScene]_vars

\* The three handle_interaction systems that share one loop shape, reading the
\* InteractionEvents of any character.
InteractionSystems == {"handle_interactions", "fireplace::handle_interaction",
                       "stereo::handle_interaction", "attic_light::handle_interaction"}

NextInteraction ==
    \/ BeginTick({})
    \/ handle_interactions_any({"fireplace", "stereo", "attic-light", "chair"})
    \/ fireplace_handle_interaction
    \/ stereo_handle_interaction
    \/ attic_light_handle_interaction
    \/ ApplyDeferred(InteractionSystems)

SpecInteraction == Init /\ [][NextInteraction]_vars

\* The two lights that flicker: the fireplace and the attic light.
FlickerSystems == {"handle_interactions", "fireplace::handle_interaction",
                   "fireplace::handle_light", "attic_light::handle_interaction",
                   "attic_light::handle_light"}

NextFlicker ==
    \/ BeginTick({})
    \/ handle_interactions_any({"fireplace", "attic-light"})
    \/ fireplace_handle_interaction
    \/ fireplace_handle_light
    \/ attic_light_handle_interaction
    \/ attic_light_handle_light
    \/ ApplyDeferred(FlickerSystems)

SpecFlicker == Init /\ [][NextFlicker]_vars

\* The fireplace and the stereo with their sound and light.
PropSystems == {"handle_interactions", "fireplace::handle_interaction",
                "fireplace::handle_sound", "fireplace::handle_light",
                "stereo::handle_interaction", "stereo::handle_sound"}

NextProps ==
    \/ BeginTick({})
    \/ handle_interactions_any({"fireplace", "stereo", "chair"})
    \/ fireplace_handle_interaction
    \/ fireplace_handle_sound
    \/ fireplace_handle_light
    \/ stereo_handle_interaction
    \/ stereo_handle_sound
    \/ ApplyDeferred(PropSystems)

SpecProps == Init /\ [][NextProps]_vars

\* The fireplace and the stereo with their sprite sheets.
AnimationSystems == {"handle_interactions", "fireplace::handle_interaction",
                     "fireplace::handle_animations", "stereo::handle_interaction",
                     "stereo::handle_animations"}

NextAnimation ==
    \/ BeginTick({})
    \/ handle_interactions_any({"fireplace", "stereo"})
    \/ fireplace_handle_interaction
    \/ fireplace_handle_animations
    \/ stereo_handle_interaction
    \/ stereo_handle_animations
    \/ ApplyDeferred(AnimationSystems)

SpecAnimation == Init /\ [][NextAnimation]_vars

\* The fireplace and the tree with their random frames.
FlameSystems == {"handle_interactions", "fireplace::handle_interaction",
                 "fireplace::handle_animations", "tree::handle_interaction",
                 "tree::handle_animations"}

NextFlames ==
    \/ BeginTick({})
    \/ handle_interactions_any({"fireplace", "tree"})
    \/ fireplace_handle_interaction
    \/ fireplace_handle_animations
    \/ tree_handle_interaction
    \/ tree_handle_animations
    \/ ApplyDeferred(FlameSystems)

SpecFlames == Init /\ [][NextFlames]_vars

\* The sheets that play in order: the stereo's, and those of the character
\* driven by the keyboard, who sits down on the InteractionEvents of the chair.
FrameSystems == {"handle_messages", "handle_interactions", "handle_chair_interaction",
                 "handle_animations", "stereo::handle_interaction",
                 "stereo::handle_animations"}

NextFrames ==
    \/ BeginTick(KeyEvents)
    \/ handle_messages
    \/ handle_interactions_near({"chair", "stereo"})
    \/ handle_chair_interaction
    \/ handle_animations
    \/ stereo_handle_interaction
    \/ stereo_handle_animations
    \/ ApplyDeferred(FrameSystems)

SpecFrames == Init /\ [][NextFrames]_vars

\* Santa and his one-shot animation.
SantaSystems == {"santa::handle_animations", "santa::handle_start"}

NextSanta ==
    \/ santa_begin_tick
    \/ santa_handle_animations
    \/ santa_handle_start
    \/ santa_apply_deferred(SantaSystems)

SpecSanta == Init /\ [][NextSanta]_vars

\* Santa while the application keeps running: the Update schedule runs in every
\* frame, so a tick that has begun runs its systems and applies its Commands.
SpecSantaRunning == SpecSanta /\ WF_vars(NextSanta)

\* The attic light with its child wired in or not: the scene as init makes it,
\* and the scene with a child that has no PointLight2d.
InitWiring == (\E wired \in BOOLEAN : InitWired(wired)) /\ probe = NoProbe

WiringSystems == {"handle_interactions", "attic_light::handle_interaction",
                  "attic_light::handle_light"}

NextWiring ==
    \/ BeginTick({})
    \/ handle_interactions_any({"attic-light", "chair"})
    \/ attic_light_handle_interaction
    \/ attic_light_handle_light
    \/ ApplyDeferred(WiringSystems)

SpecWiring == InitWiring /\ [][NextWiring]_vars

\* The tree and its light: the intensity follows a LightTransition that
\* handle_light_transition advances every tick.
LightSystems == {"handle_interactions", "tree::handle_interaction",
                 "tree::handle_light_state", "tree::handle_light_transition"}

NextLights ==
    \/ BeginTick({})
    \/ handle_interactions_any({"tree", "chair"})
    \/ tree_handle_interaction
    \/ tree_handle_light_state
    \/ tree_handle_light_transition
    \/ ApplyDeferred(LightSystems)

SpecLights == Init /\ [][NextLights]_vars

\* The props that show their State in a Sprite: fireplace, tree, light switch.
SpriteSystems == {"handle_interactions", "fireplace::handle_interaction",
                  "tree::handle_interaction", "house_lights::handle_interaction",
                  "house_lights::handle_light"}

NextSprites ==
    \/ BeginTick({})
    \/ handle_interactions_any({"fireplace", "tree", "light-switch"})
    \/ fireplace_handle_interaction
    \/ tree_handle_interaction
    \/ house_lights_handle_interaction
    \/ house_lights_handle_light
    \/ ApplyDeferred(SpriteSystems)

SpecSprites == Init /\ [][NextSprites]_vars

\* aabb_overlap on its own: two boxes are drawn, and the function answers.
ProbeSizes == {4, 10}

InitOverlap ==
    /\ InitScene
    /\ probe \in [x1 : {0, 3}, y1 : {0}, width_1 : {10}, height_1 : ProbeSizes,
                  x2 : (0 - ProbeRange)..ProbeRange, y2 : {-11, -10, 0, 7, 10},
                  width_2 : ProbeSizes, height_2 : {10}, overlap : {<< >>},
                  swapped : {<< >>}]

aabb_overlap_probe ==
    /\ probe.overlap = << >>
    /\ probe' = [probe EXCEPT !.overlap =
                    << aabb_overlap(probe.x1, probe.y1, probe.width_1, probe.height_1,
                                    probe.x2, probe.y2, probe.width_2, probe.height_2) >>]
    /\ UNCHANGED << schedVars, manVars, msgVars, cmdVars, propVars, histVars, santa >>

\* The same call with the two boxes exchanged.
aabb_overlap_probe_swapped ==
    /\ probe.swapped = << >>
    /\ probe' = [probe EXCEPT !.swapped =
                    << aabb_overlap(probe.x2, probe.y2, probe.width_2, probe.height_2,
                                    probe.x1, probe.y1, probe.width_1, probe.height_1) >>]
    /\ UNCHANGED << schedVars, manVars, msgVars, cmdVars, propVars, histVars, santa >>

NextOverlap == aabb_overlap_probe \/ aabb_overlap_probe_swapped

SpecOverlap == InitOverlap /\ [][NextOverlap]_vars

\* ---------------------------------------------------------------------------
\* noise::generate called twice with the same arguments while Time passes.

InitNoise ==
    /\ InitScene
    /\ probe \in [x : (0 - NoiseRange)..NoiseRange, y : (0 - NoiseRange)..NoiseRange,
                  octaves : 0..MaxOctaves, elapsed : {0}, out : {<< >>}, again : {<< >>}]

noise_generate_probe ==
    /\ probe.out = << >>
    /\ probe' = [probe EXCEPT !.out = << generate(probe.x, probe.y, probe.octaves) >>]
    /\ UNCHANGED << schedVars, manVars, msgVars, cmdVars, propVars, histVars, santa >>

\* Time advances between the calls.
noise_elapse ==
    /\ probe.elapsed < MaxElapsed
    /\ probe' = [probe EXCEPT !.elapsed = @ + 1]
    /\ UNCHANGED << schedVars, manVars, msgVars, cmdVars, propVars, histVars, santa >>

noise_generate_again ==
    /\ probe.out # << >>
    /\ probe.again = << >>
    /\ probe' = [probe EXCEPT !.again = << generate(probe.x, probe.y, probe.octaves) >>]
    /\ UNCHANGED << schedVars, manVars, msgVars, cmdVars, propVars, histVars, santa >>

NextNoise == noise_generate_probe \/ noise_elapse \/ noise_generate_again

SpecNoise == InitNoise /\ [][NextNoise]_vars

\* ---------------------------------------------------------------------------
\* A Timer is constructed, as theman::init and AnimationConfig::new construct
\* theirs, and then ticked by its system.

InitTimers ==
    /\ InitScene
    /\ probe \in [maker : {"from_seconds"}, argument : (0 - 1)..MaxSeconds,
                  mode : {"Once", "Repeating"}, timer : {<< >>}]
            \cup [maker : {"timer_from_fps"}, argument : 0..MaxFps,
                  mode : {"Once"}, timer : {<< >>}]

\* theman::init: StepTimer(Timer::from_seconds(..)).
timer_from_seconds_probe ==
    /\ probe.timer = << >>
    /\ probe.maker = "from_seconds"
    /\ probe' = [probe EXCEPT !.timer = << Timer_from_seconds(probe.argument, probe.mode) >>]
    /\ UNCHANGED << schedVars, manVars, msgVars, cmdVars, propVars, histVars, santa >>

\* AnimationConfig::new(first, last, fps).
timer_from_fps_probe ==
    /\ probe.timer = << >>
    /\ probe.maker = "timer_from_fps"
    /\ probe' = [probe EXCEPT !.timer = << timer_from_fps(probe.argument) >>]
    /\ UNCHANGED << schedVars, manVars, msgVars, cmdVars, propVars, histVars, santa >>

\* timer.tick(time.delta()) of handle_audio and of the handle_animations; a
\* panic at construction leaves no Timer to tick.
timer_tick_probe ==
    /\ probe.timer # << >>
    /\ ~probe.timer[1].panic
    /\ probe' = [probe EXCEPT !.timer = << Timer_tick(probe.timer[1]) >>]
    /\ UNCHANGED << schedVars, manVars, msgVars, cmdVars, propVars, histVars, santa >>

NextTimers == timer_from_seconds_probe \/ timer_from_fps_probe \/ timer_tick_probe

SpecTimers == InitTimers /\ [][NextTimers]_vars

\* ---------------------------------------------------------------------------
\* softmax called with logits of any values, and weights called as
\* handle_light_flicker calls it.

\* Sequences of 0..n values of S.
SeqUpTo(S, n) == UNION {[1..k -> S] : k \in 0..n}

InitSoftmax ==
    /\ InitScene
    /\ probe \in [call : {"softmax"},
                  logits : SeqUpTo((0 - LogitRange)..LogitRange, MaxColors),
                  temperature : 1..MaxTemperature,
                  time : {0}, seed : {0}, frequency : {1}, number : {0}, octaves : {1},
                  seed_offset : {0}, out : {<< >>}]
            \cup [call : {"weights"}, logits : {<< >>},
                  temperature : 1..MaxTemperature,
                  time : (0 - SeedRange)..SeedRange, seed : (0 - SeedRange)..SeedRange,
                  frequency : 1..2, number : 0..MaxColors, octaves : 1..MaxColorOctaves,
                  seed_offset : (0 - SeedRange)..SeedRange, out : {<< >>}]

softmax_probe ==
    /\ probe.out = << >>
    /\ probe.call = "softmax"
    /\ probe' = [probe EXCEPT !.out = << softmax(probe.logits, probe.temperature) >>]
    /\ UNCHANGED << schedVars, manVars, msgVars, cmdVars, propVars, histVars, santa >>

\* handle_light_flicker: weights(time, params.seed, params.color_frequency, ..);
\* the logits it made are kept beside the weights.
weights_probe ==
    /\ probe.out = << >>
    /\ probe.call = "weights"
    /\ probe' = [probe EXCEPT
                    !.logits = logits_of(probe.time, probe.seed, probe.frequency, probe.number,
                                         probe.octaves, probe.seed_offset),
                    !.out = << weights(probe.time, probe.seed, probe.frequency, probe.number,
                                       probe.octaves, probe.seed_offset, probe.temperature) >>]
    /\ UNCHANGED << schedVars, manVars, msgVars, cmdVars, propVars, histVars, santa >>

NextSoftmax == softmax_probe \/ weights_probe

SpecSoftmax == InitSoftmax /\ [][NextSoftmax]_vars

\* ---------------------------------------------------------------------------
\* The tree's highlight: the tree is switched by the events of any character
\* while its Highlight comes and goes.
HighlightSystems == {"handle_interactions", "interaction::highlight",
                     "tree::handle_interaction",
                     "tree::handle_interaction_disable_highlight",
                     "tree::handle_highlight", "tree::handle_highlight_reset"}

NextHighlight ==
    \/ BeginTick({})
    \/ handle_interactions_any({"tree", "chair"})
    \/ interaction_highlight
    \/ tree_handle_interaction
    \/ tree_handle_interaction_disable_highlight
    \/ tree_handle_highlight
    \/ tree_handle_highlight_reset
    \/ ApplyDeferred(HighlightSystems)

SpecHighlight == Init /\ [][NextHighlight]_vars

\* ------------------------------------------------------------------ claims

\* The matching events a reader has not read yet.
Pending(reader, id) ==
    Cardinality({ i \in 1..Len(Unread(reader)) : Unread(reader)[i] = id })

\* After k matching events, k - Pending(reader, id) of them read, the prop is On
\* exactly when the events read are odd in number.
OddToggles(prop, reader, id) ==
    (prop.state = "On") <=> ((dispatched[id] + Pending(reader, id)) % 2 = 1)

\* The step is the run of this system.
Step(system) == system \notin ran /\ ran' = ran \cup {system}

\* The step raises a Changed<State> flag of the prop.
Raises(prop, next) == \E system \in DOMAIN prop.changed :
                         next.changed[system] /\ ~prop.changed[system]

\* The first interactable, in the order of enumeration, that overlaps an
\* interactor at x: a set of at most one id.
FirstOverlapping(x) ==
    LET overlapping == { i \in 1..Len(Interactables) : Overlaps(i, x, THEMAN_Y) }
    IN  IF overlapping = {} THEN {}
        ELSE { Interactables[CHOOSE i \in overlapping : \A j \in overlapping : i <= j].id }

\* The absolute value.
Abs(n) == IF n < 0 THEN 0 - n ELSE n

\* aabb_overlap was asked about the 10x10 boxes centred at (0,0) and (x2,0).
TenByTen(x2) ==
    /\ probe.overlap # << >>
    /\ probe.x1 = 0 /\ probe.y1 = 0 /\ probe.width_1 = 10 /\ probe.height_1 = 10
    /\ probe.x2 = x2 /\ probe.y2 = 0 /\ probe.width_2 = 10 /\ probe.height_2 = 10

\* C1: every InteractionEvent whose id matches a prop toggles that prop exactly
\* once, whether the events are read in one run of its handle_interaction or in
\* runs of different ticks: with k matching events consumed, the prop is On
\* exactly when k is odd.
C1_EachEventTogglesOnce ==
    /\ OddToggles(fireplace, "fireplace", "fireplace")
    /\ OddToggles(stereo, "stereo", "stereo")
    /\ OddToggles(attic_light, "attic_light", "attic-light")

\* Two matching events, one of each tick's buffer, have been read in a single
\* run of fireplace::handle_interaction, and the fireplace is Off again.
C1_Witness ==
    /\ "fireplace::handle_interaction" \in ran
    /\ events_prev = << "fireplace" >>
    /\ events_cur = << "fireplace" >>
    /\ cursor["fireplace"] = 2
    /\ fireplace.state = "Off"
    /\ stereo.state = "On"

\* C2 (as stated): once the tree has gone Off and handle_light_state has handled
\* it, then from the end of that tick on the light has no LightTransition and
\* its intensity is exactly 0, in whatever order the systems of the tick ran.
C2_OffLightIsDark ==
    (phase = "input" /\ tree.state = "Off" /\ ~tree.changed.handle_light_state)
        => (tree.transition = << >> /\ tree.intensity = 0)

\* C3: once handle_light has seen the latest change of State and the Commands it
\* queued are applied, the light carries FlickeringLight exactly when the State
\* is On (the fireplace, and the attic light of attic_light.rs).
C3_FlickeringIffOn ==
    /\ (~fireplace.changed.handle_light /\ fireplace_commands = << >>)
          => (fireplace.flickering <=> fireplace.state = "On")
    /\ (~attic_light.changed.handle_light /\ attic_commands = << >>)
          => (attic_light.flickering <=> attic_light.state = "On")

\* Between two ticks: the fireplace is On and flickers, and the attic light,
\* whose switch read an event in the tick that ended, is Off and does not.
C3_Witness ==
    /\ phase = "input"
    /\ fireplace.state = "On" /\ fireplace.flickering
    /\ ~fireplace.changed.handle_light
    /\ events_prev = << "attic-light" >> /\ cursor["attic_light"] = 1
    /\ attic_light.state = "Off" /\ ~attic_light.flickering
    /\ ~attic_light.changed.handle_light

\* C4 (as stated): in every state a system can observe, the State of a prop and
\* its Sprite agree: On with the on image, Off with the off image (fireplace,
\* tree, and the light switch of the house).
C4_StateMatchesSprite ==
    /\ (fireplace.state = "On") <=> (fireplace.sprite = running_sprite)
    /\ (fireplace.state = "Off") <=> (fireplace.sprite = off_sprite)
    /\ (tree.state = "On") <=> (tree.sprite = running_sprite)
    /\ (tree.state = "Off") <=> (tree.sprite = off_sprite)
    /\ (house_lights.state = "On") <=> (house_lights.sprite.image = "switch_on")
    /\ (house_lights.state = "Off") <=> (house_lights.sprite.image = "switch_off")

\* C5: the State, Sprite, audio and light of a prop change only because of an
\* InteractionEvent with the prop's id: State and Sprite change only when its
\* handle_interaction reads a matching event, an event with another id (or no
\* event) leaves the prop as it was, and the sink and the light follow only a
\* change of State that a matching event made, in whatever order the handlers run.
C5_OnlyMatchingEvents ==
    [][ /\ (fireplace'.state # fireplace.state \/ fireplace'.sprite # fireplace.sprite
            \/ Raises(fireplace, fireplace'))
              => (Step("fireplace::handle_interaction")
                  /\ Pending("fireplace", "fireplace") > 0)
        /\ (Step("fireplace::handle_interaction") /\ Pending("fireplace", "fireplace") = 0)
              => fireplace' = fireplace
        /\ fireplace'.sink # fireplace.sink
              => (Step("fireplace::handle_sound") /\ fireplace.changed.handle_sound)
        /\ (fireplace'.intensity # fireplace.intensity
            \/ fireplace_commands' \notin {fireplace_commands, << >>})
              => (Step("fireplace::handle_light") /\ fireplace.changed.handle_light)
        /\ fireplace'.flickering # fireplace.flickering
              => (phase' = "input" /\ fireplace_commands # << >>)
        /\ (stereo'.state # stereo.state \/ stereo'.sprite # stereo.sprite
            \/ Raises(stereo, stereo'))
              => (Step("stereo::handle_interaction") /\ Pending("stereo", "stereo") > 0)
        /\ (Step("stereo::handle_interaction") /\ Pending("stereo", "stereo") = 0)
              => stereo' = stereo
        /\ stereo'.sink # stereo.sink
              => (Step("stereo::handle_sound") /\ stereo.changed.handle_sound)
      ]_vars

\* Both handlers have read an event for the stereo: the stereo is On, and the
\* fireplace is as it was at the start.
C5_Witness ==
    /\ events_prev = << "stereo" >>
    /\ events_cur = << >>
    /\ {"fireplace::handle_interaction", "stereo::handle_interaction",
        "fireplace::handle_sound", "fireplace::handle_light"} \subseteq ran
    /\ cursor["fireplace"] = 1
    /\ stereo.state = "On" /\ stereo.sprite = running_sprite
    /\ fireplace.state = "Off" /\ fireplace.sprite = off_sprite
    /\ fireplace.sink = "paused" /\ ~fireplace.flickering /\ fireplace_commands = << >>
    /\ dispatched["fireplace"] = 0

\* C6 (as stated): every write of State::Action (an Up input, an arrival at a
\* click target) is answered by exactly one InteractionEvent with the id In
\* Range, and by none when nothing is In Range: when handle_interactions runs,
\* it writes one event per activation since its last run.
C6_OneEventPerActivation ==
    [][ Step("handle_interactions")
          => /\ Len(events_cur') - Len(events_cur)
                   = (IF in_range # {} THEN undispatched ELSE 0)
             /\ \A i \in (Len(events_cur) + 1)..Len(events_cur') : events_cur'[i] \in in_range
      ]_vars

\* C7 (as stated): the tick that handles an Up input with the fireplace In Range
\* also dispatches the event, toggles the fireplace and attaches or detaches its
\* FlickeringLight: at the end of that tick nothing is left for the next one.
C7_SameTickEffects ==
    (phase = "input" /\ activation = {"fireplace"})
        => /\ events_prev = << "fireplace" >>
           /\ cursor["fireplace"] = Len(events_prev)
           /\ ~fireplace.changed.handle_light
           /\ fireplace.flickering <=> (fireplace.state = "On")

\* C8: when the Commands of a run of detect_overlaps have been applied, the
\* interactor has at most one InRange; it has one exactly when some interactable
\* overlapped it as detect_overlaps saw it, and the id is that of the first
\* overlapping interactable in the order of enumeration.
C8_InRangeIsFirstOverlap ==
    phase = "input" => (Cardinality(in_range) <= 1 /\ in_range = FirstOverlapping(seen_x))

\* The character stands where the attic light and the light switch both
\* overlap it: the attic light, enumerated first, is the one In Range.
C8_Witness ==
    /\ phase = "input"
    /\ seen_x = 143
    /\ Cardinality({ i \in 1..Len(Interactables) : Overlaps(i, seen_x, THEMAN_Y) }) = 2
    /\ in_range = {"attic-light"}

\* C9: the InRange of the interactor changes only when the Commands of
\* detect_overlaps are applied, and then to the overlap detect_overlaps found
\* (created on entering, removed on leaving, replaced when the id differs);
\* detect_overlaps queues nothing when the overlap is the one recorded; and no
\* InteractionEvent is written by any of it: events are written only by
\* handle_interactions, for a changed State of Action.
C9_InRangeFollowsOverlap ==
    [][ /\ in_range' # in_range
              => /\ phase = "update" /\ phase' = "input"
                 /\ in_range' = FirstOverlapping(seen_x)
                 /\ events_cur' = << >> /\ events_prev' = events_cur
        /\ (Step("detect_overlaps") /\ FirstOverlapping(theman_x) = in_range)
              => overlap_commands' = << >>
        /\ Step("detect_overlaps") => UNCHANGED << events_prev, events_cur >>
        /\ Len(events_cur') > Len(events_cur)
              => /\ Step("handle_interactions")
                 /\ state_changed /\ theman_state = "Action" /\ in_range # {}
                 /\ UNCHANGED << in_range, overlap_commands >>
      ]_vars

\* The character has walked from the fireplace to the attic light:
\* detect_overlaps has queued the replacement of its InRange, and no event was
\* written in this tick.
C9_Witness ==
    /\ in_range = {"fireplace"}
    /\ overlap_commands = << [op |-> "insert", id |-> "attic-light"] >>
    /\ ran = KeyboardSystems
    /\ events_cur = << >>

C11_OverlapIsSymmetric ==
    (probe.overlap # << >> /\ probe.swapped # << >>) => probe.overlap = probe.swapped

\* Both orders have answered for two boxes of different sizes, the second to
\* the left of the first and overlapping it.
C11_Witness ==
    /\ probe.x1 = 3 /\ probe.x2 = -4 /\ probe.y2 = 7
    /\ probe.height_1 = 4 /\ probe.width_2 = 4
    /\ probe.overlap = << TRUE >> /\ probe.swapped = << TRUE >>


\* The transitions of the character's state that are listed: Idle->Walking,
\* Walking->Idle, Idle->Action, Action->Sitting, Sitting->Idle.
ListedTransitions ==
    { <<"Idle", "Walking">>, <<"Walking", "Idle">>, <<"Idle", "Action">>,
      <<"Action", "Sitting">>, <<"Sitting", "Idle">> }

\* C12: every change of the character's state is one of the listed transitions
\* (Idle->Walking, Walking->Idle, Idle->Action, Action->Sitting, Sitting->Idle)
\* and no other.
C12_ListedTransitionsOnly ==
    [][theman_state' # theman_state
         => <<theman_state, theman_state'>> \in ListedTransitions]_vars

\* C13: once the Walking character has become Idle (navigation target reached,
\* or directional input released) it stays Idle until a new input arrives: the
\* only step that takes the character out of Idle is handle_messages reading
\* an input event.
C13_IdleUntilNewInput ==
    [][(theman_state = "Idle" /\ theman_state' # "Idle")
         => (Step("handle_messages") /\ inputs # << >>)]_vars

\* C14: while the character is Sitting with the chair in range, an interact
\* (Up) input returns it to Idle with the standing sprite once the input and
\* the InteractionEvent it produces have been processed: the run of
\* handle_chair_interaction that reads that chair event leaves the character
\* Idle, showing the standing sprite.
C14_InteractAgainStandsUp ==
    [][(Step("handle_chair_interaction") /\ rising /\ Pending("theman", "chair") > 0)
         => (theman_state' = "Idle" /\ theman_sprite' = standing_sprite)]_vars

\* C15: the character enters Sitting only from Action and only by
\* handle_chair_interaction reading an InteractionEvent with the chair's id; a
\* run of handle_chair_interaction that reads no chair event leaves the
\* character's state, sprite and position unchanged.
C15_SitsOnlyOnChairEvent ==
    [][/\ (theman_state' = "Sitting" /\ theman_state # "Sitting")
            => /\ theman_state = "Action"
               /\ Step("handle_chair_interaction")
               /\ Pending("theman", "chair") > 0
       /\ (Step("handle_chair_interaction") /\ Pending("theman", "chair") = 0)
            => UNCHANGED << theman_state, theman_sprite, theman_x >>]_vars

\* handle_chair_interaction has read the chair's event in this tick and the
\* character sits at the chair's sitting position.
C15_Witness ==
    /\ "handle_chair_interaction" \in ran
    /\ theman_state = "Sitting" /\ theman_x = CHAIR_SIT_X
    /\ theman_sprite = sitting_sprite
    /\ Pending("theman", "chair") = 0 /\ events_cur = << "chair" >>

\* C16: whenever the character is Walking its AnimationConfig range is the
\* walking sheet's (first_index 0, last_index 8), and whenever it is Sitting
\* the range is the sitting sheet's (first_index 0, last_index 4).
C16_RangeMatchesState ==
    /\ theman_state = "Walking"
         => (theman_config.first_index = 0 /\ theman_config.last_index = 8)
    /\ theman_state = "Sitting"
         => (theman_config.first_index = 0 /\ theman_config.last_index = 4)

\* C17: the character's sprite image always matches its state: the standing
\* image in Idle and Action, the walking sheet in Walking, the sitting sheet in
\* Sitting.
C17_SpriteMatchesState ==
    theman_sprite.image = CASE theman_state \in {"Idle", "Action"} -> "standing"
                            [] theman_state = "Walking" -> "walking"
                            [] theman_state = "Sitting" -> "sitting"

\* C18: whenever the stereo's or the fireplace's state changes to On, the state
\* with the frame range of the running sheet, its animation cursor is reset:
\* the frame timer is restarted from zero and the frame index is first_index.
C18_CursorResetOnStateChange ==
    [][/\ (stereo.state = "Off" /\ stereo'.state = "On")
            => /\ stereo'.config.frame_timer = 0
               /\ stereo'.sprite.atlas = << "running", stereo'.config.first_index >>
       /\ (fireplace.state = "Off" /\ fireplace'.state = "On")
            => /\ fireplace'.config.frame_timer = 0
               /\ fireplace'.sprite.atlas = << "running", fireplace'.config.first_index >>]_vars

\* The sink of the prop is playing exactly when the prop is On, once handle_sound
\* has seen the prop's latest change of State.
SinkFollowsState(prop) ==
    ~prop.changed.handle_sound => (prop.sink = "playing" <=> prop.state = "On")

\* C19: for the fireplace and the stereo, after any sequence of toggles, once
\* handle_sound has observed the latest state change the audio sink is playing
\* if and only if the state is On.
C19_SinkPlayingIffOn == SinkFollowsState(fireplace) /\ SinkFollowsState(stereo)

\* fireplace::handle_sound has started the loop of the fireplace, switched on;
\* the stereo has been switched on, then off, and stereo::handle_sound has
\* paused its loop in this tick.
C19_Witness ==
    /\ fireplace.state = "On" /\ ~fireplace.changed.handle_sound
    /\ fireplace.sink = "playing"
    /\ stereo.state = "Off" /\ ~stereo.changed.handle_sound /\ stereo.sink = "paused"
    /\ "stereo::handle_sound" \in ran /\ "stereo::handle_interaction" \in ran
    /\ Pending("stereo", "stereo") = 0 /\ events_cur = << "stereo" >>

\* The AddPresentsEvents the step writes.
Emitted == IF santa'.added > santa.added THEN santa'.added - santa.added ELSE 0

\* The step is the run of santa::handle_animations that finishes Santa's run on
\* this frame index.
FinishesOn(index) ==
    /\ Step("santa::handle_animations")
    /\ santa.run /\ santa.sprite
    /\ santa.atlas = << index >> /\ santa'.atlas = << >>
    /\ santa'.finish # << >>

\* C20: Santa's animation writes AddPresentsEvent exactly once per run that
\* finishes on frame index 27, which is how a run started when the tree had no
\* presents finishes, and at no other step: a run started while presents exist
\* finishes on frame index 7 and writes none, and a run that has not finished
\* writes none.
C20_PresentsOncePerFullRun ==
    [][/\ Emitted = 1 <=> (FinishesOn(27) /\ ~santa.with_presents)
       /\ Emitted \in {0, 1}
       /\ \A index \in 0..27 :
             FinishesOn(index) => index = (IF santa.with_presents THEN 7 ELSE 27)]_vars

\* A run started without presents has just finished on frame index 27 and its
\* AddPresentsEvent is written; Run and Sprite are removed at the end of the tick.
C20_Witness ==
    /\ "santa::handle_animations" \in ran
    /\ santa.run /\ santa.atlas = << >> /\ santa.finish = << "remove" >>
    /\ santa.config.last_index = 27 /\ ~santa.with_presents
    /\ santa.added = 1

\* C21: when the switch of the attic light fires and its child has no light, the
\* light update is a silent no-op: the State of the switch still toggles with
\* every matching event, and no sound is spawned, no FlickeringLight inserted
\* or removed and no intensity written.
C21_MissingLightIsNoOp ==
    ~attic_light.light
        => /\ OddToggles(attic_light, "attic_light", "attic-light")
           /\ attic_commands = << >>
           /\ attic_light.intensity = 0 /\ ~attic_light.flickering

\* The switch without a light child has been switched on and handle_light has
\* handled the change in this tick.
C21_Witness ==
    /\ ~attic_light.light /\ attic_light.state = "On"
    /\ "attic_light::handle_light" \in ran /\ ~attic_light.changed.handle_light
    /\ "attic_light::handle_interaction" \in ran /\ Pending("attic_light", "attic-light") = 0

\* C22: octaves = 0 is a no-op returning 0: generate(x, y, 0) never divides by
\* a zero normalizer, so its answer is never NaN and is the value 0.
C22_ZeroOctavesReturnZero ==
    (probe.out # << >> /\ probe.octaves = 0)
        => (~probe.out[1].nan /\ probe.out[1].num = 0)


InUnitRange(answer) ==
    /\ ~answer.nan
    /\ answer.num <= answer.den
    /\ 0 - answer.num <= answer.den

\* C25: for every octaves >= 1 and every (x, y), negative coordinates included,
\* the answer of generate lies in [-1, 1].
C25_GenerateInUnitRange ==
    (probe.out # << >> /\ probe.octaves >= 1) => InUnitRange(probe.out[1])

\* A point of negative coordinates where several octaves add up to a quarter
\* of the range or more.
C25_Witness ==
    /\ probe.out # << >> /\ probe.octaves >= 2
    /\ probe.x < 0 /\ probe.y < 0
    /\ ~probe.out[1].nan /\ 4 * Abs(probe.out[1].num) >= probe.out[1].den

\* C23: a timer constructed with a zero or negative duration, or from fps = 0,
\* is an error at construction and never a Timer with that duration.
C23_InvalidTimerFailsFast ==
    (/\ probe.timer # << >>
     /\ \/ probe.maker = "from_seconds" /\ probe.argument <= 0
        \/ probe.maker = "timer_from_fps" /\ probe.argument = 0)
        => probe.timer[1].panic

\* The number of colors of the palette of the call.
Colors == IF probe.call = "softmax" THEN Len(probe.logits) ELSE probe.number

\* There is one weight per color and no weight is negative.
OnePerColor(given) ==
    /\ Len(given) = Colors
    /\ \A i \in 1..Len(given) : given[i] >= 0

\* The weights add up to 1.0 within one unit per weight.
SumsToOne(given) == Abs(sum(given) - WeightOne) <= Len(given)

\* The logits are shifted by their maximum: no argument of exp is positive and
\* one of them is 0.
ShiftedByMax ==
    LET scaled == scaled_logits(probe.logits, probe.temperature)
    IN  /\ \A i \in 1..Len(scaled) : scaled[i] - max_logit(scaled) <= 0
        /\ \E i \in 1..Len(scaled) : scaled[i] - max_logit(scaled) = 0

C27_EveryChildFollowsSwitch ==
    (~house_lights.changed.handle_light /\ house_commands = << >>)
        => /\ house_lights.state = "On" => house_lights.flickering = Children
           /\ house_lights.state = "Off"
                => /\ house_lights.flickering = {}
                   /\ \A c \in Children : house_lights.intensity[c] = 0

\* C28: the walk of the character is ended for Action (handle_movement counts
\* the Navigation target as reached), and so an InteractionEvent follows, only
\* when the character walks by a click to that target: a direction key never by
\* itself stops the character into Action.
C28_KeysNeverFinishNavigation ==
    [][(Step("handle_movement") /\ nav_remove' /\ ~nav_remove) => ~keyed]_vars

\* C29: after the deferred Commands are applied, a character that is Idle, in
\* Action or Sitting, or Walking because of a direction key, carries no Navigation.
C29_NavigationOnlyOnClickWalk ==
    (phase = "input"
     /\ (theman_state \in {"Idle", "Action", "Sitting"}
         \/ (theman_state = "Walking" /\ keyed)))
        => navigation = {}

\* The box of the character at x overlaps the box of the interactable of this id.
OverlapsId(id, x) ==
    \E i \in 1..Len(Interactables) : Interactables[i].id = id /\ Overlaps(i, x, THEMAN_Y)

\* C30: whenever handle_interactions writes an InteractionEvent with id X, the
\* box of the character, at the position it has in that step, overlaps the box
\* of the interactable X, under any order of the Update systems.
C30_EventOnlyWhereOverlapping ==
    [][(Step("handle_interactions") /\ events_cur' # events_cur)
            => OverlapsId(events_cur'[Len(events_cur')], theman_x)]_vars

\* tree::handle_light_transition completes the transition in this step and
\* calls randomize.
Randomizes ==
    /\ Step("tree::handle_light_transition")
    /\ tree.transition # << >>
    /\ tree.transition[1].progress + 1 >= TransitionTicks

\* C31: after every call of LightTransition::randomize on the tree's light the
\* new target_color differs from the new current_color.
C31_RandomizedColorsDiffer ==
    [][Randomizes => tree'.transition[1].target_color # tree'.transition[1].current_color]_vars

\* C32: once the tree has been turned On, Interactable.first is false as soon as
\* handle_interaction_disable_highlight has seen the latest change of State, and
\* handle_highlight never applies the pulse again, also when the tree is Off
\* again and carries a Highlight.
C32_HighlightEndsWithFirstOn ==
    [][tree.turned_on
        => /\ (Step("tree::handle_highlight") /\ tree.highlight) => ~tree'.pulsing
           /\ ~tree'.changed.handle_interaction_disable_highlight => ~tree'.first]_vars


\* The Commands of the tick are applied.
Applies == phase = "update" /\ phase' = "input"

\* C33: every SantasHereEvent that handle_start has handled in a tick leaves
\* Santa, once the Commands of that tick are applied, with Run and a Sprite at
\* frame index 0, also when handle_animations has finished a run in that tick.
C33_EveryEventStartsARun ==
    [][(Applies /\ santa.start # << >>)
            => santa'.run /\ santa'.sprite /\ santa'.atlas = << 0 >>]_vars

\* The frame timer of a running Santa expires in this step of handle_animations.
SantaExpires ==
    /\ Step("santa::handle_animations")
    /\ santa.run /\ santa.sprite /\ santa.atlas # << >>
    /\ santa.config.frame_timer < santa.duration
    /\ santa.config.frame_timer + 1 = santa.duration

RandomFrame(prop, next) ==
    IF prop.state = "Off"
    THEN next.sprite = prop.sprite /\ next.config = prop.config
    ELSE (JustFinished(prop.config) /\ prop.sprite.atlas # << >>)
            => /\ next.sprite.atlas[2] # prop.sprite.atlas[2]
               /\ next.sprite.atlas[2] \in prop.config.first_index..prop.config.last_index

\* An On prop shows a frame of its sheet.
ShowsFrame(prop) ==
    prop.state = "On"
        => /\ prop.sprite.atlas # << >>
           /\ prop.sprite.atlas[2] \in prop.config.first_index..prop.config.last_index

\* C35: while the fireplace or the tree is On, every expiry of its frame timer
\* changes the atlas index to another index of first_index..last_index, the
\* index is within that range in every state, and while the prop is Off its
\* handle_animations changes neither the sprite nor the timer.
C35_RandomFramesDifferInRange ==
    /\ [](ShowsFrame(fireplace) /\ ShowsFrame(tree))
    /\ [][/\ Step("fireplace::handle_animations") => RandomFrame(fireplace, fireplace')
          /\ Step("tree::handle_animations") => RandomFrame(tree, tree')]_vars

\* The frame timers of the fireplace and of the tree have both expired while
\* they are On, and each shows a frame other than the first.
C35_Witness ==
    /\ fireplace.state = "On" /\ tree.state = "On"
    /\ {"fireplace::handle_animations", "tree::handle_animations"} \subseteq ran
    /\ fireplace.sprite.atlas # << >> /\ fireplace.sprite.atlas[2] > 0
    /\ fireplace.config.frame_timer = 0
    /\ tree.sprite.atlas # << >> /\ tree.sprite.atlas[2] > 0
    /\ tree.config.frame_timer = 0

\* The frame timer of the stereo, which is On, expires in this step.
StereoExpires ==
    /\ Step("stereo::handle_animations")
    /\ stereo.state = "On" /\ stereo.sprite.atlas # << >>
    /\ JustFinished(stereo.config)

\* The frame timer of the character, who is in this State, expires in this step.
ManExpires(state) ==
    /\ Step("handle_animations")
    /\ theman_state = state /\ theman_sprite.atlas # << >>
    /\ JustFinished(theman_config)

\* The frame after this one on a looping sheet.
Looped(index, config) ==
    IF index = config.last_index THEN config.first_index ELSE index + 1

\* C36: the looping sheets (the stereo's while On, the character's while
\* Walking) advance by one frame per expiry of the frame timer and wrap from
\* last_index to first_index; the Sitting sheet advances by one per expiry up
\* to last_index and holds there; a run of a handle_animations without an
\* expiry leaves the index; and the index of an On stereo and of a Walking or
\* Sitting character is within first_index..last_index in every state.
C36_SheetsLoopOrHold ==
    /\ [](/\ ShowsFrame(stereo)
          /\ theman_state \in {"Walking", "Sitting"}
                => /\ theman_sprite.atlas # << >>
                   /\ theman_sprite.atlas[2]
                         \in theman_config.first_index..theman_config.last_index)
    /\ [][/\ Step("stereo::handle_animations")
                => stereo'.sprite.atlas =
                      IF StereoExpires
                      THEN << stereo.sprite.atlas[1],
                              Looped(stereo.sprite.atlas[2], stereo.config) >>
                      ELSE stereo.sprite.atlas
          /\ Step("handle_animations")
                => theman_sprite'.atlas =
                      IF ManExpires("Walking")
                      THEN << theman_sprite.atlas[1],
                              Looped(theman_sprite.atlas[2], theman_config) >>
                      ELSE IF ManExpires("Sitting")
                              /\ theman_sprite.atlas[2] < theman_config.last_index
                      THEN << theman_sprite.atlas[1], theman_sprite.atlas[2] + 1 >>
                      ELSE theman_sprite.atlas]_vars

\* The walking sheet has just wrapped from its last frame to the first (no
\* input came in this tick, handle_animations has run and the timer is new),
\* and the stereo plays a frame other than the first.
C36_Witness ==
    /\ theman_state = "Walking" /\ ran = {"handle_animations"}
    /\ theman_sprite.atlas = << "walking", 0 >>
    /\ theman_config.frame_timer = 0 /\ inputs = << >>
    /\ stereo.state = "On" /\ stereo.sprite.atlas # << >> /\ stereo.sprite.atlas[2] > 0

\* The character sits on the last frame of the sitting sheet and the timer of
\* that frame has run out.
C36_SittingHolds ==
    /\ theman_state = "Sitting"
    /\ theman_sprite.atlas = << "sitting", theman_config.last_index >>
    /\ theman_config.frame_timer = FrameTicks

\* C37: a Walking character faces Left or Right, never Up; a run of
\* handle_movement that finds it Walking changes its x or stops it for its
\* Navigation; and x changes in no other step than that one and a run of
\* handle_chair_interaction that finds it in Action and sits it on the chair.
C37_WalkingMovesSideways ==
    /\ [](theman_state = "Walking" => theman_direction \in {"Left", "Right"})
    /\ [][/\ (Step("handle_movement") /\ theman_state = "Walking")
                => \/ theman_x' # theman_x
                   \/ NavigationReached /\ theman_state' = "Idle" /\ nav_remove'
          /\ theman_x' # theman_x
                => \/ Step("handle_movement") /\ theman_state = "Walking"
                   \/ /\ Step("handle_chair_interaction")
                      /\ theman_state = "Action" /\ theman_x' = CHAIR_SIT_X]_vars

\* The character walks Left towards a click, away from where it started:
\* handle_movement has run in a tick without input and has not stopped it.
C37_Witness ==
    /\ theman_state = "Walking" /\ theman_direction = "Left"
    /\ "handle_movement" \in ran /\ "handle_messages" \notin ran /\ inputs = << >>
    /\ navigation # {} /\ ~nav_remove
    /\ theman_x > 0 - WorldLeft
====
